---- MODULE Spec2Model ----
(***************************************************************************)
(* Lido council daemon: the guardian's per-block decision pipeline.        *)
(*                                                                         *)
(*   GuardianService.handleNewBlock           the cron tick                *)
(*   StakingModuleGuardService                front-run detection, pause,  *)
(*                                            deposit re-signing gate      *)
(*   StakingRouterService                     keys-index consistency       *)
(*                                                                         *)
(* The specifications share the definitions:                               *)
(*   Spec       the tick state machine (handleNewBlock and what it calls)  *)
(*              with failing requests and a registry that changes          *)
(*   SpecPause  the ticks over every deposit history of the bounds         *)
(*   SpecFR  the pure detection functions applied to bounded inputs        *)
(***************************************************************************)
EXTENDS Integers, Sequences, FiniteSets, TLC

(***************************************************************************)
(* Bounds of the model                                                     *)
(***************************************************************************)
\* staking modules of the staking router: ids 1..NumModules
NumModules == 2
\* block numbers a keys-index snapshot can carry: MinBlock..MaxBlock
MinBlock == 9
MaxBlock == 11
\* length of the deposited-events list given to the pure detection functions
MaxFrEvents == 3
\* length of the deposited-events list of a tick
MaxTickEvents == 2
\* lastChangedBlockHash values of the keys-index: 1..MaxChangeHash
MaxChangeHash == 2
\* forks of the chain the execution client can follow
NumForks == 1
\* ticks that end by an exception of an await
MaxFailures == 1
\* keys in one call of getInvalidKeys, calls of getInvalidKeys
MaxValidatedKeys == 2
MaxValidationCalls == 3
\* calls of handleCorrectKeys for one module in a behaviour of SpecHCK
MaxHandleCorrectKeysCalls == 2
\* the highest finalized block and the runs of updateEventsCache in a behaviour of
\* SpecEC; the chunk size, scaled down from 10000 so that runs take several chunks
MaxFinalizedBlock == 5
MaxCacheRuns == 3
DEPOSIT_EVENTS_STEP == 2
\* the depth of the deposit tree, scaled down from 32; the leaves inserted into one
\* tree and the byte mutations in a behaviour of SpecDT
DEPOSIT_CONTRACT_TREE_DEPTH == 3
MaxLeaves == 5
MaxMutations == 1
\* the ticks of the cron job and the values of a chain id in a behaviour of SpecSU
MaxCronTicks == 2
NumChainIds == 2
\* the values of lastChangedBlockHash and the calls of getKeys in a behaviour of
\* SpecKA
NumKeysHashes == 3
MaxGetKeysCalls == 3
\* ticks of the module fan-out and awaits that reject in them
MaxFanTicks == 2
MaxFanFailures == 2

(***************************************************************************)
(* Program constants                                                       *)
(***************************************************************************)
\* guardian.constants: blocks per re-signing window
GUARDIAN_DEPOSIT_RESIGNING_BLOCKS == 10

(***************************************************************************)
(* Value domains                                                           *)
(***************************************************************************)
Modules == 1..NumModules
BlockNumbers == MinBlock..MaxBlock
\* competing chains: a block number has one block per fork
Forks == 1..NumForks
\* the hash of the block with number bn on a fork
BlockHash(bn, fork) == 10 * bn + fork
\* lastChangedBlockHash values of the keys-index
ChangeHashes == 1..MaxChangeHash
\* DSM contract versions
Versions == {2, 3}
Pubkeys == {1, 2}
\* withdrawal credentials: the Lido one and a foreign one
LidoWC == 1
BadWC == 2
WCs == {LidoWC, BadWC}
\* deposit signatures of registry keys: 1 verifies against LidoWC, 2 does not
GoodSignature == 1
BadSignature == 2

\* staking module address of a module id (one address per module)
ModuleAddress(id) == 100 + id

(***************************************************************************)
(* VerifiedDepositEvent, RegistryKey                                       *)
(***************************************************************************)
\* the absent entry of potentialLidoDepositsKeysMap (undefined in the source)
NoEvent == [pubkey |-> 0, wc |-> 0, valid |-> FALSE, blockNumber |-> 0, logIndex |-> 0]

DepositEvents ==
  [pubkey : Pubkeys, wc : WCs, valid : BOOLEAN, blockNumber : {1, 2}, logIndex : {0, 1}]

RECURSIVE SeqsUpTo(_, _)
SeqsUpTo(S, n) ==
  IF n = 0 THEN {<<>>}
  ELSE LET shorter == SeqsUpTo(S, n - 1)
       IN shorter \cup {Append(s, x) : s \in {t \in shorter : Len(t) = n - 1}, x \in S}

Range(s) == {s[i] : i \in 1..Len(s)}

(***************************************************************************)
(* StakingModuleGuardService: front-run detection                          *)
(***************************************************************************)
\* faulty variant: compares block numbers only, forgetting logIndex inside a block
isFirstEventEarlierBlockOnly(firstEvent, secondEvent) ==
  firstEvent.blockNumber < secondEvent.blockNumber

isFirstEventEarlier(firstEvent, secondEvent) ==
  LET isSameBlock == firstEvent.blockNumber = secondEvent.blockNumber
  IN IF isSameBlock
     THEN firstEvent.logIndex < secondEvent.logIndex
     ELSE firstEvent.blockNumber < secondEvent.blockNumber

\* the forEach that fills potentialLidoDepositsKeysMap
RECURSIVE potentialLidoDepositsKeysMap(_, _)
potentialLidoDepositsKeysMap(events, map) ==
  IF events = <<>> THEN map
  ELSE LET event == Head(events)
           existed == map[event.pubkey]
           isExisted == existed # NoEvent /\ isFirstEventEarlier(existed, event)
       IN potentialLidoDepositsKeysMap(
            Tail(events),
            IF isExisted THEN map ELSE [map EXCEPT ![event.pubkey] = event])

\* the pubkeys getHistoricalFrontRun hands to the keys-index (with repetitions)
frontRunnedDepositKeys(blockData) ==
  LET events == blockData.depositedEvents.events
      lidoWC == blockData.lidoWC
      potentialLidoDepositsEvents ==
        SelectSeq(events, LAMBDA e : e.wc = lidoWC /\ e.valid)
      keysMap ==
        potentialLidoDepositsKeysMap(potentialLidoDepositsEvents,
                                     [p \in Pubkeys |-> NoEvent])
      duplicatedDepositEvents ==
        SelectSeq(events, LAMBDA e : keysMap[e.pubkey] # NoEvent /\ e.wc # lidoWC)
      validDuplicatedDepositEvents ==
        SelectSeq(duplicatedDepositEvents, LAMBDA e : e.valid)
      frontRunnedDepositEvents ==
        SelectSeq(validDuplicatedDepositEvents,
                  LAMBDA suspectedEvent :
                    isFirstEventEarlier(suspectedEvent, keysMap[suspectedEvent.pubkey]))
  IN [i \in 1..Len(frontRunnedDepositEvents) |-> frontRunnedDepositEvents[i].pubkey]

\* KeysApiService.getKeysByPubkeys: POST /v1/keys/find returns the keys of the
\* keys-index whose pubkey is among the requested ones (indexKeys: the pubkeys the
\* keys-index holds)
getKeysByPubkeys(pubkeys, indexKeys) == Range(pubkeys) \cap indexKeys

\* result: the returned boolean; queried: whether /v1/keys/find was requested
getHistoricalFrontRun(blockData, indexKeys) ==
  LET keys == frontRunnedDepositKeys(blockData)
  IN IF Len(keys) = 0
     THEN [result |-> FALSE, queried |-> FALSE]
     ELSE [result |-> getKeysByPubkeys(keys, indexKeys) # {}, queried |-> TRUE]

\* faulty variant: the intersection with the deposited events is never found
getKeysIntersectionsNone(stakingModuleData, blockData) == <<>>

getKeysIntersections(stakingModuleData, blockData) ==
  LET vettedUnusedKeysSet == {k.key : k \in Range(stakingModuleData.vettedUnusedKeys)}
  IN SelectSeq(blockData.depositedEvents.events,
               LAMBDA e : e.pubkey \in vettedUnusedKeysSet)

\* faulty variant: forgets to drop the deposits whose signature is invalid
excludeEligibleIntersectionsNoValid(blockData, intersections) ==
  SelectSeq(intersections, LAMBDA e : e.wc # blockData.lidoWC)

excludeEligibleIntersections(blockData, intersections) ==
  SelectSeq(intersections, LAMBDA e : e.wc # blockData.lidoWC /\ e.valid)

getFrontRunAttempts(stakingModuleData, blockData) ==
  LET keysIntersections == getKeysIntersections(stakingModuleData, blockData)
      frontRunAttempts == excludeEligibleIntersections(blockData, keysIntersections)
      keys == {deposit.pubkey : deposit \in Range(frontRunAttempts)}
  IN SelectSeq(stakingModuleData.vettedUnusedKeys, LAMBDA key : key.key \in keys)

(***************************************************************************)
(* Keys-index data of a tick                                               *)
(***************************************************************************)
RegistryKey(key, depositSignature, operatorIndex, index, used, moduleAddress) ==
  [key |-> key, depositSignature |-> depositSignature, operatorIndex |-> operatorIndex,
   index |-> index, used |-> used, moduleAddress |-> moduleAddress]

\* the keys one module can hold in a tick: none, or one unused key at index 0 of
\* operator 0
ModuleKeyLists(id) ==
  {<<>>} \cup
  {<<RegistryKey(1, sig, 0, 0, FALSE, ModuleAddress(id))>> :
     sig \in {GoodSignature, BadSignature}}

RECURSIVE KeyListsUpTo(_)
KeyListsUpTo(n) ==
  IF n = 0 THEN {<<>>}
  ELSE {l \o k : l \in KeyListsUpTo(n - 1), k \in ModuleKeyLists(n)}

\* the answers of GET /v1/keys
TickKeyLists == KeyListsUpTo(NumModules)

\* the operators of every module as GET /v1/operators reports them
Operator(index, stakingLimit, usedSigningKeys) ==
  [index |-> index, stakingLimit |-> stakingLimit, usedSigningKeys |-> usedSigningKeys]

OperatorsByModule(id, nonce, operators) ==
  [operators |-> operators,
   module |-> [id |-> id, stakingModuleAddress |-> ModuleAddress(id), nonce |-> nonce]]

\* the operator every module has in the front-run scenarios: one key vetted
SingleOperator == <<Operator(0, 1, 0)>>

\* deposited events of a tick, in chain order: the i-th event is in block i
TickEventKinds ==
  {[pubkey |-> 1, wc |-> LidoWC, valid |-> TRUE],
   [pubkey |-> 1, wc |-> BadWC, valid |-> TRUE],
   [pubkey |-> 1, wc |-> BadWC, valid |-> FALSE]}

TickEventLists ==
  {[i \in 1..Len(s) |->
      [pubkey |-> s[i].pubkey, wc |-> s[i].wc, valid |-> s[i].valid,
       blockNumber |-> i, logIndex |-> 0]] : s \in SeqsUpTo(TickEventKinds, MaxTickEvents)}

(***************************************************************************)
(* StakingRouterService                                                    *)
(***************************************************************************)
\* vetted-keys getVettedUnusedKeys: per operator, its unused keys in ascending
\* index order, the first stakingLimit - usedSigningKeys of them
RECURSIVE SortByIndex(_)
SortByIndex(keys) ==
  IF keys = <<>> THEN <<>>
  ELSE LET least == CHOOSE i \in 1..Len(keys) :
                      \A j \in 1..Len(keys) :
                        keys[i].index < keys[j].index
                        \/ (keys[i].index = keys[j].index /\ i <= j)
           rest == [j \in 1..(Len(keys) - 1) |-> IF j < least THEN keys[j] ELSE keys[j + 1]]
       IN <<keys[least]>> \o SortByIndex(rest)

RECURSIVE getVettedUnusedKeys(_, _)
getVettedUnusedKeys(operators, unusedKeys) ==
  IF operators = <<>> THEN <<>>
  ELSE LET operator == Head(operators)
           operatorKeys ==
             SortByIndex(SelectSeq(unusedKeys,
                                   LAMBDA k : k.operatorIndex = operator.index))
           numberOfVettedUnusedKeys == operator.stakingLimit - operator.usedSigningKeys
           count == IF numberOfVettedUnusedKeys < 0 THEN 0
                    ELSE IF numberOfVettedUnusedKeys > Len(operatorKeys)
                         THEN Len(operatorKeys) ELSE numberOfVettedUnusedKeys
       IN SubSeq(operatorKeys, 1, count)
          \o getVettedUnusedKeys(Tail(operators), unusedKeys)

\* faulty variant: the deposited keys are left out of the vetted keys
RECURSIVE getModuleVettedKeysUnused(_, _)
getModuleVettedKeysUnused(operators, moduleKeys) ==
  IF operators = <<>> THEN <<>>
  ELSE LET operator == Head(operators)
           operatorKeys ==
             SortByIndex(SelectSeq(moduleKeys,
                                   LAMBDA k : k.operatorIndex = operator.index))
       IN SelectSeq(operatorKeys,
                    LAMBDA k : k.index < operator.stakingLimit /\ ~k.used)
          \o getModuleVettedKeysUnused(Tail(operators), moduleKeys)

\* vetted-keys getVettedKeys: per operator, its keys below the staking limit in
\* ascending index order, the deposited ones included
RECURSIVE getModuleVettedKeys(_, _)
getModuleVettedKeys(operators, moduleKeys) ==
  IF operators = <<>> THEN <<>>
  ELSE LET operator == Head(operators)
           operatorKeys ==
             SortByIndex(SelectSeq(moduleKeys,
                                   LAMBDA k : k.operatorIndex = operator.index))
       IN SelectSeq(operatorKeys, LAMBDA k : k.index < operator.stakingLimit)
          \o getModuleVettedKeys(Tail(operators), moduleKeys)

\* getStakingModulesData for one entry of operatorsByModules; vettedKeys is the field
\* of StakingModuleData that getVettedKeys of the guardian service reads
getStakingModuleData(entry, meta, lidoKeys) ==
  LET stakingModule == entry.module
      moduleKeys ==
        SelectSeq(lidoKeys,
                  LAMBDA key : key.moduleAddress = stakingModule.stakingModuleAddress)
      unusedKeys ==
        SelectSeq(lidoKeys,
                  LAMBDA key : ~key.used
                               /\ key.moduleAddress = stakingModule.stakingModuleAddress)
  IN [unusedKeys |-> [i \in 1..Len(unusedKeys) |-> unusedKeys[i].key],
      vettedKeys |-> getModuleVettedKeys(entry.operators, moduleKeys),
      nonce |-> stakingModule.nonce,
      stakingModuleId |-> stakingModule.id,
      stakingModuleAddress |-> stakingModule.stakingModuleAddress,
      blockHash |-> meta.blockHash,
      lastChangedBlockHash |-> meta.lastChangedBlockHash,
      vettedUnusedKeys |-> getVettedUnusedKeys(entry.operators, unusedKeys),
      invalidKeys |-> <<>>,
      frontRunKeys |-> <<>>,
      duplicatedKeys |-> <<>>]

\* faulty variant: the comparison is dropped, the two requests are never told apart
isEqualLastChangedBlockHashAlways(firstRequestHash, secondRequestHash) == TRUE

\* FALSE stands for the throw of InconsistentLastChangedBlockHash
isEqualLastChangedBlockHash(firstRequestHash, secondRequestHash) ==
  ~(firstRequestHash # secondRequestHash)

(***************************************************************************)
(* Duplicate detector and deposit-signature validator                      *)
(***************************************************************************)
\* order of two instances of a pubkey when no SigningKeyAdded record decides:
\* lowest (module, operatorIndex, index) first
KeyPrecedes(a, b) ==
  \/ a.moduleAddress < b.moduleAddress
  \/ /\ a.moduleAddress = b.moduleAddress
     /\ \/ a.operatorIndex < b.operatorIndex
        \/ (a.operatorIndex = b.operatorIndex /\ a.index < b.index)

\* the SigningKeyAdded events of the signing-key event cache that record the key
SigningKeyAddedOf(key, cache) ==
  {e \in cache : /\ e.moduleAddress = key.moduleAddress
                 /\ e.operatorIndex = key.operatorIndex
                 /\ e.index = key.index}

\* faulty variant: the events are ordered by their log index before their block
AddedBeforeByLogIndex(a, b) ==
  \/ a.logIndex < b.logIndex
  \/ (a.logIndex = b.logIndex /\ a.blockNumber < b.blockNumber)

\* event a is before event b on the chain, by (blockNumber, logIndex)
AddedBefore(a, b) ==
  \/ a.blockNumber < b.blockNumber
  \/ (a.blockNumber = b.blockNumber /\ a.logIndex < b.logIndex)

\* faulty variant: the instance added last is taken for the original
isOriginalKeyLatest(k, instances, cache) ==
  IF \A o \in instances : SigningKeyAddedOf(o, cache) # {}
  THEN \A o \in instances \ {k} :
         \E ek \in SigningKeyAddedOf(k, cache), eo \in SigningKeyAddedOf(o, cache) :
           AddedBefore(eo, ek)
  ELSE \A o \in instances \ {k} : KeyPrecedes(k, o)

\* the canonical original among the instances of one pubkey: the one with the
\* earliest SigningKeyAdded event; the lowest (module, operatorIndex, index) when the
\* cache does not record the instances
isOriginalKey(k, instances, cache) ==
  IF \A o \in instances : SigningKeyAddedOf(o, cache) # {}
  THEN \A o \in instances \ {k} :
         \E ek \in SigningKeyAddedOf(k, cache), eo \in SigningKeyAddedOf(o, cache) :
           AddedBefore(ek, eo)
  ELSE \A o \in instances \ {k} : KeyPrecedes(k, o)

\* keys-duplication-checker getDuplicatedKeys: every instance of a pubkey but the
\* original one; all instances when a copy of the original in another module has a
\* different signature
getDuplicatedKeys(vettedKeys, cache) ==
  LET same(k) == {o \in Range(vettedKeys) : o.key = k.key}
      original(k) == CHOOSE o \in same(k) : isOriginalKey(o, same(k), cache)
      unsafe(k) ==
        \E o \in same(k) : /\ o.moduleAddress # original(k).moduleAddress
                           /\ o.depositSignature # original(k).depositSignature
  IN SelectSeq(vettedKeys,
               LAMBDA k : Cardinality(same(k)) > 1 /\ (unsafe(k) \/ k # original(k)))

\* StakingModuleGuardService.getVettedKeys: the vetted keys of all modules
RECURSIVE getVettedKeys(_, _)
getVettedKeys(stakingModulesData, n) ==
  IF n = 0 THEN <<>>
  ELSE getVettedKeys(stakingModulesData, n - 1) \o stakingModulesData[n].vettedKeys

\* KeysValidationService.getInvalidKeys: the keys whose deposit signature does not
\* verify for (pubkey, lidoWC, 32 ETH)
validateKeys(keys, lidoWC) ==
  SelectSeq(keys, LAMBDA k : ~(k.depositSignature = GoodSignature /\ lidoWC = LidoWC))

getInvalidKeys(stakingModuleData, blockData) ==
  validateKeys(stakingModuleData.vettedUnusedKeys, blockData.lidoWC)

\* no entry of the validation cache for a pubkey
NoCacheEntry == [depositSignature |-> 0, wc |-> 0, valid |-> FALSE]

\* faulty variant: a change of the withdrawal credential is not noticed
keyNeedsValidationBySignature(key, lidoWC, cache) ==
  \/ cache[key.key] = NoCacheEntry
  \/ cache[key.key].depositSignature # key.depositSignature

\* the cached result cannot be reused: no entry for the pubkey, or the entry is for
\* another (depositSignature, wc)
keyNeedsValidation(key, lidoWC, cache) ==
  \/ cache[key.key] = NoCacheEntry
  \/ cache[key.key].depositSignature # key.depositSignature
  \/ cache[key.key].wc # lidoWC

\* the keys handed to validateKeys
keysNeedingValidation(keys, lidoWC, cache) ==
  SelectSeq(keys, LAMBDA k : keyNeedsValidation(k, lidoWC, cache))

\* the cache after the validated keys are stored, in their order
RECURSIVE updateCache(_, _, _)
updateCache(cache, validated, lidoWC) ==
  IF validated = <<>> THEN cache
  ELSE LET key == Head(validated)
           entry == [depositSignature |-> key.depositSignature, wc |-> lidoWC,
                     valid |-> validateKeys(<<key>>, lidoWC) = <<>>]
       IN updateCache([cache EXCEPT ![key.key] = entry], Tail(validated), lidoWC)

\* faulty variant: only the keys validated in the call are reported
invalidKeysOfCallValidatedOnly(keys, lidoWC, cache) ==
  validateKeys(keysNeedingValidation(keys, lidoWC, cache), lidoWC)

\* what getInvalidKeys returns: the invalid keys among those validated in the call,
\* and the keys whose cached result is reused and is invalid
invalidKeysOfCall(keys, lidoWC, cache) ==
  validateKeys(keysNeedingValidation(keys, lidoWC, cache), lidoWC)
    \o SelectSeq(keys, LAMBDA k : /\ ~keyNeedsValidation(k, lidoWC, cache)
                                  /\ ~cache[k.key].valid)

(***************************************************************************)
(* StakingModuleGuardService: decisions                                    *)
(***************************************************************************)
\* canDeposit: no theft, no pause, no flagged key
canDeposit(stakingModuleData, theft, alreadyPaused) ==
  ~( \/ theft
     \/ alreadyPaused
     \/ Len(stakingModuleData.frontRunKeys) > 0
     \/ Len(stakingModuleData.invalidKeys) > 0
     \/ Len(stakingModuleData.duplicatedKeys) > 0 )

\* faulty variant: the soft-pause check is skipped
branchReachesHandleCorrectKeysAlways(stakingModuleData, theft, alreadyPaused) == TRUE

\* handleNewBlock, the end of a module branch: return on a soft pause, else go on
\* to handleCorrectKeys
branchReachesHandleCorrectKeys(stakingModuleData, theft, alreadyPaused) ==
  ~(~canDeposit(stakingModuleData, theft, alreadyPaused))

\* the gate of pauseDepositsV3: one global pause on a version 3 contract
pauseDepositsV3Gate(theft, alreadyPaused, ver) ==
  ver >= 3 /\ theft /\ ~alreadyPaused

\* the gate of pauseDepositsV2: per-module pauses on an older contract
pauseDepositsV2Gate(theft, alreadyPaused, ver) ==
  ver < 3 /\ theft /\ ~alreadyPaused

\* handleUnvetting: a module with a flagged key gets an unvet message
needsUnvetting(stakingModuleData) ==
  \/ Len(stakingModuleData.frontRunKeys) > 0
  \/ Len(stakingModuleData.invalidKeys) > 0
  \/ Len(stakingModuleData.duplicatedKeys) > 0

\* no state recorded yet for a module (undefined in the source)
NoContractsState ==
  [nonce |-> -1, depositRoot |-> 0, blockNumber |-> 0, lastChangedBlockHash |-> 0]

\* Math.floor(a / b) for non-negative a
Floor(a, b) == a \div b

\* faulty variant: states are the same only at the same block number
isSameContractsStatesSameBlock(firstState, secondState) ==
  IF firstState = NoContractsState \/ secondState = NoContractsState THEN FALSE
  ELSE IF firstState.depositRoot # secondState.depositRoot THEN FALSE
  ELSE IF firstState.lastChangedBlockHash # secondState.lastChangedBlockHash THEN FALSE
  ELSE firstState.blockNumber = secondState.blockNumber

\* faulty variant: the deposit root is not compared
isSameContractsStatesAnyRoot(firstState, secondState) ==
  IF firstState = NoContractsState \/ secondState = NoContractsState THEN FALSE
  ELSE IF firstState.lastChangedBlockHash # secondState.lastChangedBlockHash THEN FALSE
  ELSE IF Floor(firstState.blockNumber, GUARDIAN_DEPOSIT_RESIGNING_BLOCKS)
          # Floor(secondState.blockNumber, GUARDIAN_DEPOSIT_RESIGNING_BLOCKS) THEN FALSE
  ELSE TRUE

\* faulty variant: the lastChangedBlockHash is not compared
isSameContractsStatesAnyChange(firstState, secondState) ==
  IF firstState = NoContractsState \/ secondState = NoContractsState THEN FALSE
  ELSE IF firstState.depositRoot # secondState.depositRoot THEN FALSE
  ELSE IF Floor(firstState.blockNumber, GUARDIAN_DEPOSIT_RESIGNING_BLOCKS)
          # Floor(secondState.blockNumber, GUARDIAN_DEPOSIT_RESIGNING_BLOCKS) THEN FALSE
  ELSE TRUE

isSameContractsStates(firstState, secondState) ==
  IF firstState = NoContractsState \/ secondState = NoContractsState THEN FALSE
  ELSE IF firstState.depositRoot # secondState.depositRoot THEN FALSE
  ELSE IF firstState.lastChangedBlockHash # secondState.lastChangedBlockHash THEN FALSE
  ELSE IF Floor(firstState.blockNumber, GUARDIAN_DEPOSIT_RESIGNING_BLOCKS)
          # Floor(secondState.blockNumber, GUARDIAN_DEPOSIT_RESIGNING_BLOCKS) THEN FALSE
  ELSE TRUE

\* handleCorrectKeys: the state it builds from the tick's data
currentContractState(stakingModuleData, blockData) ==
  [nonce |-> stakingModuleData.nonce,
   depositRoot |-> blockData.depositRoot,
   blockNumber |-> blockData.blockNumber,
   lastChangedBlockHash |-> stakingModuleData.lastChangedBlockHash]

\* BlockGuardService.isNeedToProcessNewState
NoStateMeta == [blockHash |-> 0, blockNumber |-> 0]

\* faulty variant: a snapshot is new when its block hash is
isNeedToProcessNewStateByHash(last, blockHash, blockNumber) ==
  IF last = NoStateMeta THEN TRUE
  ELSE ~(blockHash = last.blockHash)

isNeedToProcessNewState(last, blockHash, blockNumber) ==
  IF last = NoStateMeta THEN TRUE
  ELSE ~(blockNumber <= last.blockNumber \/ blockHash = last.blockHash)

\* faulty variant: the block guard is not consulted
blockGuardSkipsNever(last, blockHash, blockNumber) == FALSE

\* handleNewBlock: return before the keys call when the block guard has seen the
\* snapshot
blockGuardSkips(last, blockHash, blockNumber) ==
  ~isNeedToProcessNewState(last, blockHash, blockNumber)

\* setLastProcessedStateMeta({blockHash, blockNumber}) at the end of the body
setLastProcessedStateMeta(blockHash, blockNumber) ==
  [blockHash |-> blockHash, blockNumber |-> blockNumber]

\* faulty variant: the catch marks the block of the failed tick as processed
handleNewBlockCatchMarksProcessed(last, blockHash, blockNumber) ==
  setLastProcessedStateMeta(blockHash, blockNumber)

\* the catch of handleNewBlock logs the error: the last processed state stays
handleNewBlockCatch(last, blockHash, blockNumber) == last

\* common/decorators OneAtTime: the call runs unless one is in flight
OneAtTime(executing) == ~executing

\* faulty variant: handleNewBlock without its @OneAtTime() decorator
handleNewBlockEntersAlways(executing) == TRUE

\* @OneAtTime() on handleNewBlock
handleNewBlockEnters(executing) == OneAtTime(executing)

(***************************************************************************)
(* Messages handed to the message bus                                      *)
(***************************************************************************)
\* faulty variant: the nonce of the module is left out of the message
MessageWithoutNonce(type, stakingModuleId, blockData, nonce) ==
  [type |-> type, stakingModuleId |-> stakingModuleId,
   blockNumber |-> blockData.blockNumber, blockHash |-> blockData.blockHash,
   depositRoot |-> blockData.depositRoot, nonce |-> 0]

Message(type, stakingModuleId, blockData, nonce) ==
  [type |-> type, stakingModuleId |-> stakingModuleId,
   blockNumber |-> blockData.blockNumber, blockHash |-> blockData.blockHash,
   depositRoot |-> blockData.depositRoot, nonce |-> nonce]

\* the operators of the flagged keys, each once, in the order they first appear
RECURSIVE flaggedOperators(_)
flaggedOperators(keys) ==
  IF keys = <<>> THEN <<>>
  ELSE LET front == flaggedOperators(SubSeq(keys, 1, Len(keys) - 1))
           operatorIndex == keys[Len(keys)].operatorIndex
       IN IF operatorIndex \in Range(front) THEN front
          ELSE Append(front, operatorIndex)

\* faulty variant: the operator is unvetted down to its last flagged key
newVettedAmountLast(keys, operatorIndex) ==
  LET indexes == {k.index : k \in {f \in Range(keys) : f.operatorIndex = operatorIndex}}
  IN CHOOSE i \in indexes : \A j \in indexes : i >= j

\* the new vetted amount of an operator: the smallest index of its flagged keys
newVettedAmount(keys, operatorIndex) ==
  LET indexes == {k.index : k \in {f \in Range(keys) : f.operatorIndex = operatorIndex}}
  IN CHOOSE i \in indexes : \A j \in indexes : i <= j

\* the keys handleUnvetting unvets: the flagged keys of the module
keysForUnvetting(stakingModuleData) ==
  stakingModuleData.frontRunKeys \o stakingModuleData.invalidKeys
    \o stakingModuleData.duplicatedKeys

\* the unvet message: operatorIds and vettedKeysByOperator are packed in the same
\* operator order
UnvetMessage(stakingModuleData, blockData) ==
  LET keys == keysForUnvetting(stakingModuleData)
      operatorIds == flaggedOperators(keys)
  IN [type |-> "unvet", stakingModuleId |-> stakingModuleData.stakingModuleId,
      blockNumber |-> blockData.blockNumber, blockHash |-> blockData.blockHash,
      depositRoot |-> blockData.depositRoot, nonce |-> stakingModuleData.nonce,
      operatorIds |-> operatorIds,
      vettedKeysByOperator |->
        [i \in 1..Len(operatorIds) |-> newVettedAmount(keys, operatorIds[i])]]

\* faulty variant: every module branch enters the unvetting
handleUnvettingEntersAlways(executing) == TRUE

\* the unvetting is guarded against overlapping calls: while the unvetting of one
\* module is in flight, the call of another module branch returns at once
handleUnvettingEnters(executing) == OneAtTime(executing)

(***************************************************************************)
(* State                                                                   *)
(***************************************************************************)
VARIABLES
  \* the keys-index (keys API)
  kapiKeys,                      \* the keys GET /v1/keys answers
  kapiLastChangedBlockHash,      \* meta.elBlockSnapshot.lastChangedBlockHash
  kapiNonces,                    \* nonce of every staking module
  kapiOperators,                 \* the operators of every module
  \* the chain
  depositedEvents,               \* deposit events of the deposit contract
  dsmVersion,                    \* version of the deposit security module
  dsmPaused,                     \* deposits are paused on the module
  signingKeyAdded,               \* SigningKeyAdded events of the staking modules
  \* GuardianService
  isExecuting,                   \* the OneAtTime flag of handleNewBlock
  running,                       \* bodies of handleNewBlock in flight
  skipped,                       \* a cron invocation returned at the guard while the
                                 \* tick in flight was running
  pc,                            \* position of the tick: idle, keys, pause, modules, end
  failures,                      \* ticks ended by an exception so far
  outcome,                       \* how the tick in flight ends: none, running,
                                 \* unchanged, aborted, failed, done
  \* locals of handleNewBlock
  meta,                          \* elBlockSnapshot of the operators call
  operatorsByModules,            \* data of the operators call
  currMeta,                      \* elBlockSnapshot of the keys call
  blockData,
  theftHappened,
  alreadyPausedDeposits,
  version,
  duplicatedKeys,
  findQueried,                   \* /v1/keys/find was requested
  stakingModulesData,
  modPc,                         \* position of each module branch: check, unvet,
                                 \* decide, sign, done, softPaused (returned at
                                 \* canDeposit)
  lastContractsState,            \* per branch, the local of handleCorrectKeys
  pausePending,                  \* modules whose handleKeysIntersections is pending
  \* the message bus
  sent,                          \* messages handed to the bus by the tick in flight
  \* BlockGuardService
  lastProcessedStateMeta,
  \* DepositRegistryService
  depositCacheEndBlock,          \* headers.endBlock of the deposit event cache
  \* StakingModuleGuardService
  lastContractsStateByModuleId,
  \* SecurityService
  pauseIsExecuting,              \* the OneAtTime flag of the on-chain pauseDeposits
  pauseSubmitted,                \* modules whose pauseDeposits transaction was
                                 \* submitted by the tick in flight
  unvetIsExecuting,              \* the OneAtTime flag of the unvetting
  unvetSubmitted,                \* modules whose unvetSigningKeys transaction was
                                 \* submitted by the tick in flight
  \* inputs and results of the pure detection functions (SpecFR)
  frBlockData,
  frModuleData,
  frIndexKeys,
  frPc,
  frAttempts,
  frHistorical,
  \* KeysValidationService and the calls made to it (SpecKV)
  keysCache,                     \* the validation cache, by pubkey
  kvCalls,                       \* calls of getInvalidKeys so far
  kvKeys,                        \* keys and lidoWC of the last call
  kvWC,
  kvPrevKeys,                    \* keys and lidoWC of the call before it
  kvPrevWC,
  kvCacheBefore,                 \* the cache when the last call was made
  kvValidated,                   \* per call, the argument of validateKeys
  kvResult,                      \* what the last call returned
  \* one call of handleCorrectKeys on given states (SpecHCK)
  hckLastContractsState,         \* lastContractsStateByModuleId[id] before the call
  hckCurrentContractState,       \* the state the call builds
  hckRecorded,                   \* lastContractsStateByModuleId[id]
  hckPc,                         \* "idle", "call", "sign", "published", "skipped",
                                 \* "failed"
  hckSent,                       \* the deposit messages the call published
  hckCalls,                      \* calls made so far
  hckUnpublished,                \* history: the recorded state was recorded by a call
                                 \* that went on to sign, and no call published since
  \* DepositRegistryService and what its runs of updateEventsCache see (SpecEC)
  ecDeploymentBlock,             \* getDeploymentBlockByNetwork()
  ecChain,                       \* the blocks of the chain that hold a deposit event
  ecStore,                       \* the persisted cache: headers, data, lastValidEvent
  ecTree,                        \* the leaves of the index tree of the sanity checker
  ecPc,                          \* "off", "idle", "loop"
  ecFinalizedBlockNumber,        \* the finalized block the run in flight got
  ecInitialCache,                \* getCachedEvents() at the start of the run
  ecBlock,                       \* the loop variable
  ecLastIndexedEvent,            \* lastIndexedEvent of the run
  ecRuns,                        \* runs started so far
  ecChunks,                      \* history: the chunks the run fetched, in order
  ecRunEvents,                   \* history: the events the run indexed, in order
  ecIsRootValid,                 \* history: "none", "valid", "mismatch", "aborted"
  ecCurrentBlock,                \* the block of the last getAllDepositedEvents call
  ecAllDepositedEvents,          \* what the call returned
  ecFreshFetched,                \* history: the call fetched fresh events
  ecTick,                        \* "none", "aborted", "proceeds": the tick that called
  \* a DepositTree and a clone of it (SpecDT)
  dtTree,                        \* the original: branch, nodeCount
  dtClone,                       \* the clone, once made
  dtCloned,                      \* clone() was called
  dtAlias,                       \* the heights whose branch slot is one and the same
                                 \* array in both trees
  dtLeaves,                      \* history: the leaves inserted into the original
  dtCloneLeaves,                 \* history: the leaves the clone holds
  dtMutated,                     \* history: the trees a byte mutation was made in
  dtMutations,                   \* byte mutations so far
  dtLastOp,                      \* history: the last operation and the tree it was
                                 \* applied to
  \* the start of the process (SpecSU)
  suPc,                          \* the step the start is at
  suEnvValid,                    \* process.env passes the validation
  suChainId,                     \* the chain id of the EL node
  suKeysApiStatus,               \* the status of the keys-index: chainId, appVersion
  suDone,                        \* history: the steps completed
  suExit,                        \* <<>>, or <<code>> once the process exited
  suCronStarted,                 \* cron.start() was called
  suTicks,                       \* the times the cron job called handleNewBlock
  \* KeysApiService and the keys-index it asks (SpecKA)
  kaCachedKeys,                  \* cachedKeys
  kaIndex,                       \* what GET /v1/keys answers now
  kaCalls,                       \* calls of getKeys so far
  kaCall,                        \* history: the last call of getKeys
  \* handleNewBlock and the branches its Promise.all calls start (SpecFan)
  fanTicks,                      \* bodies of handleNewBlock started so far
  fanExecuting,                  \* the OneAtTime flag of handleNewBlock
  fanCur,                        \* the tick whose body is in flight, 0 when none
  fanPc,                         \* where that body waits: idle, pause, modules, end
  fanBlock,                      \* per tick, the block of its snapshot
  fanTheft,                      \* per tick, theftHappened
  fanPause,                      \* per tick and module, handleKeysIntersections:
                                 \* none, sign, send, done, failed
  fanBranch,                     \* per tick and module, the branch of the fan-out:
                                 \* none, check, sign, done, softPaused, failed
  fanOutcome,                    \* per tick: none, running, unchanged, done, failed
  fanSettled,                    \* per tick, the promise handleNewBlock returned:
                                 \* pending, resolved, rejected
  fanLast,                       \* lastContractsStateByModuleId
  fanLastProcessed,              \* lastProcessedStateMeta
  fanSent,                       \* history: the messages handed to the bus
  fanLastDeposit,                \* history: per module, the block of the deposit
                                 \* message published last
  fanRaised,                     \* history: the exceptions raised
  fanLogged,                     \* history: the exceptions the catch logged
  fanOnChainFailed,              \* history: on-chain pause calls that rejected
  fanFailures,                   \* awaits that rejected so far
  \* the methods under @OneAtTime() and their callers (SpecOAT)
  oatExecuting,                  \* per method, the flag of the decorator
  oatCall,                       \* per method, the call that entered last: none,
                                 \* running, or how it ended
  oatPrev,                       \* history: per method, how the call before ended
  oatInvocation                  \* history: per method, what the last invocation
                                 \* did: none, entered, skipped

envVars ==
  <<kapiKeys, kapiLastChangedBlockHash, kapiNonces, kapiOperators, depositedEvents,
    dsmVersion, dsmPaused, signingKeyAdded>>

\* what handleNewBlock holds between its entry and its return
localVars ==
  <<meta, operatorsByModules, currMeta, blockData, theftHappened,
    alreadyPausedDeposits, version, duplicatedKeys, findQueried, stakingModulesData,
    modPc, lastContractsState, pausePending>>

\* what outlives a tick
serviceVars ==
  <<lastProcessedStateMeta, depositCacheEndBlock, lastContractsStateByModuleId,
    pauseIsExecuting, unvetIsExecuting>>

tickVars ==
  <<isExecuting, running, skipped, pc, outcome, failures, localVars, sent,
    pauseSubmitted, unvetSubmitted, serviceVars>>

frVars == <<frBlockData, frModuleData, frIndexKeys, frPc, frAttempts, frHistorical>>

kvVars ==
  <<keysCache, kvCalls, kvKeys, kvWC, kvPrevKeys, kvPrevWC, kvCacheBefore,
    kvValidated, kvResult>>

hckVars ==
  <<hckLastContractsState, hckCurrentContractState, hckRecorded, hckPc, hckSent,
    hckCalls, hckUnpublished>>

ecVars ==
  <<ecDeploymentBlock, ecChain, ecStore, ecTree, ecPc, ecFinalizedBlockNumber,
    ecInitialCache, ecBlock, ecLastIndexedEvent, ecRuns, ecChunks, ecRunEvents,
    ecIsRootValid, ecCurrentBlock, ecAllDepositedEvents, ecFreshFetched, ecTick>>

dtVars ==
  <<dtTree, dtClone, dtCloned, dtAlias, dtLeaves, dtCloneLeaves, dtMutated,
    dtMutations, dtLastOp>>

kaVars == <<kaCachedKeys, kaIndex, kaCalls, kaCall>>

fanVars ==
  <<fanTicks, fanExecuting, fanCur, fanPc, fanBlock, fanTheft, fanPause, fanBranch,
    fanOutcome, fanSettled, fanLast, fanLastProcessed, fanSent, fanLastDeposit,
    fanRaised, fanLogged, fanOnChainFailed, fanFailures>>

suVars ==
  <<suPc, suEnvValid, suChainId, suKeysApiStatus, suDone, suExit, suCronStarted,
    suTicks>>

oatVars == <<oatExecuting, oatCall, oatPrev, oatInvocation>>

auxVars == <<hckVars, ecVars, dtVars, suVars, kaVars, fanVars, oatVars>>

baseVars == <<envVars, tickVars, frVars, kvVars>>

vars == <<baseVars, auxVars>>

NoMeta == [blockNumber |-> 0, blockHash |-> 0, lastChangedBlockHash |-> 0]

NoCurrMeta == [lastChangedBlockHash |-> 0]

NoBlockData ==
  [blockNumber |-> 0, blockHash |-> 0, depositRoot |-> 0,
   depositedEvents |-> [events |-> <<>>], lidoWC |-> LidoWC]

NoModuleData(id) ==
  getStakingModuleData(OperatorsByModule(id, 0, SingleOperator), NoMeta, <<>>)

\* the daemon after onModuleInit
TickInit ==
  /\ isExecuting = FALSE
  /\ running = 0
  /\ skipped = FALSE
  /\ pc = "idle"
  /\ outcome = "none"
  /\ failures = 0
  /\ meta = NoMeta
  /\ operatorsByModules = [m \in Modules |-> OperatorsByModule(m, 0, SingleOperator)]
  /\ currMeta = NoCurrMeta
  /\ blockData = NoBlockData
  /\ theftHappened = FALSE
  /\ alreadyPausedDeposits = FALSE
  /\ version = 0
  /\ duplicatedKeys = <<>>
  /\ findQueried = FALSE
  /\ stakingModulesData = [m \in Modules |-> NoModuleData(m)]
  /\ modPc = [m \in Modules |-> "done"]
  /\ lastContractsState = [m \in Modules |-> NoContractsState]
  /\ pausePending = {}
  /\ sent = {}
  /\ lastProcessedStateMeta = NoStateMeta
  /\ depositCacheEndBlock = MinBlock - 1
  /\ lastContractsStateByModuleId = [m \in Modules |-> NoContractsState]
  /\ pauseIsExecuting = FALSE
  /\ pauseSubmitted = {}
  /\ unvetIsExecuting = FALSE
  /\ unvetSubmitted = {}

\* the keys-index and the chain the daemon is started against
EnvInit ==
  /\ kapiKeys \in TickKeyLists
  /\ kapiLastChangedBlockHash = 1
  /\ kapiNonces = [m \in Modules |-> 0]
  /\ kapiOperators = [m \in Modules |-> SingleOperator]
  /\ depositedEvents \in TickEventLists
  /\ dsmVersion \in Versions
  /\ dsmPaused \in BOOLEAN
  /\ signingKeyAdded = {}

EnvIdle ==
  /\ kapiKeys = <<>>
  /\ kapiLastChangedBlockHash = 1
  /\ kapiNonces = [m \in Modules |-> 0]
  /\ kapiOperators = [m \in Modules |-> SingleOperator]
  /\ depositedEvents = <<>>
  /\ dsmVersion = 3
  /\ dsmPaused = FALSE
  /\ signingKeyAdded = {}

\* KeysValidationService after construction: an empty cache, no call made
KvInit ==
  /\ keysCache = [pubkey \in Pubkeys |-> NoCacheEntry]
  /\ kvCalls = 0
  /\ kvKeys = <<>>
  /\ kvWC = LidoWC
  /\ kvPrevKeys = <<>>
  /\ kvPrevWC = LidoWC
  /\ kvCacheBefore = [pubkey \in Pubkeys |-> NoCacheEntry]
  /\ kvValidated = <<>>
  /\ kvResult = <<>>

\* no call of handleCorrectKeys on given states is made
HckIdle ==
  /\ hckLastContractsState = NoContractsState
  /\ hckCurrentContractState = NoContractsState
  /\ hckRecorded = NoContractsState
  /\ hckPc = "idle"
  /\ hckSent = {}
  /\ hckCalls = 0
  /\ hckUnpublished = FALSE

\* deposits-registry.constants DEPOSIT_CACHE_DEFAULT, with no lastValidEvent
DEPOSIT_CACHE_DEFAULT ==
  [headers |-> [startBlock |-> 0, endBlock |-> 0], data |-> <<>>, lastValidEvent |-> 0]

NoDepositedEvents == [events |-> <<>>, startBlock |-> 0, endBlock |-> 0, isValid |-> TRUE]

NoCallOfGetAllDepositedEvents ==
  /\ ecCurrentBlock = 0
  /\ ecAllDepositedEvents = NoDepositedEvents
  /\ ecFreshFetched = FALSE
  /\ ecTick = "none"

\* no run of updateEventsCache is made
EcIdle ==
  /\ ecDeploymentBlock = 0
  /\ ecChain = {}
  /\ ecStore = DEPOSIT_CACHE_DEFAULT
  /\ ecTree = <<>>
  /\ ecPc = "off"
  /\ ecFinalizedBlockNumber = 0
  /\ ecInitialCache = DEPOSIT_CACHE_DEFAULT
  /\ ecBlock = 0
  /\ ecLastIndexedEvent = 0
  /\ ecRuns = 0
  /\ ecChunks = <<>>
  /\ ecRunEvents = <<>>
  /\ ecIsRootValid = "none"
  /\ NoCallOfGetAllDepositedEvents

\* a node of the tree: a leaf <<n>>, the hash <<a, b>> of two nodes, a node with a
\* byte overwritten <<node, i, v>>; ZERO_HASH is the zero leaf
ZERO_HASH == <<0>>

Heights == 0..(DEPOSIT_CONTRACT_TREE_DEPTH - 1)

\* sha256 of the concatenation of two nodes, kept as the pair: no two pairs collide
digest2Bytes32(a, b) == <<a, b>>

\* zeroHashes[h]: the root of an all-zero subtree of height h
RECURSIVE zeroHashes(_)
zeroHashes(h) ==
  IF h = 0 THEN ZERO_HASH ELSE digest2Bytes32(zeroHashes(h - 1), zeroHashes(h - 1))

\* new DepositTree()
NewDepositTree == [branch |-> [h \in Heights |-> zeroHashes(h)], nodeCount |-> 0]

\* no DepositTree is exercised
DtIdle ==
  /\ dtTree = NewDepositTree
  /\ dtClone = NewDepositTree
  /\ dtCloned = FALSE
  /\ dtAlias = {}
  /\ dtLeaves = <<>>
  /\ dtCloneLeaves = <<>>
  /\ dtMutated = {}
  /\ dtMutations = 0
  /\ dtLastOp = [op |-> "off", tree |-> "none"]

\* an appVersion: major, minor, patch
AppVersions == {<<major, minor, patch>> : major \in 0..1, minor \in 0..1, patch \in 0..1}

\* the start of the process is not exercised
SuIdle ==
  /\ suPc = "off"
  /\ suEnvValid = TRUE
  /\ suChainId = 1
  /\ suKeysApiStatus = [chainId |-> 1, appVersion |-> <<0, 0, 0>>]
  /\ suDone = {}
  /\ suExit = <<>>
  /\ suCronStarted = FALSE
  /\ suTicks = 0

\* cachedKeys is undefined
NoCachedKeys == [meta |-> [elBlockSnapshot |-> [lastChangedBlockHash |-> 0]], data |-> 0]

NoGetKeysCall ==
  [snapshot |-> 0, requested |-> FALSE, threw |-> FALSE, result |-> NoCachedKeys,
   cachedBefore |-> NoCachedKeys, response |-> NoCachedKeys, failed |-> FALSE]

\* KeysApiService is not exercised
KaIdle ==
  /\ kaCachedKeys = NoCachedKeys
  /\ kaIndex = NoCachedKeys
  /\ kaCalls = 0
  /\ kaCall = NoGetKeysCall

\* the ticks of the fan-out
FanTicks == 1..MaxFanTicks

\* no branch of a tick was started
NoFanBranches == [m \in Modules |-> "none"]

\* the daemon after onModuleInit, before the first cron tick
FanIdle ==
  /\ fanTicks = 0
  /\ fanExecuting = FALSE
  /\ fanCur = 0
  /\ fanPc = "idle"
  /\ fanBlock = [t \in FanTicks |-> 0]
  /\ fanTheft = [t \in FanTicks |-> FALSE]
  /\ fanPause = [t \in FanTicks |-> NoFanBranches]
  /\ fanBranch = [t \in FanTicks |-> NoFanBranches]
  /\ fanOutcome = [t \in FanTicks |-> "none"]
  /\ fanSettled = [t \in FanTicks |-> "pending"]
  /\ fanLast = [m \in Modules |-> NoContractsState]
  /\ fanLastProcessed = NoStateMeta
  /\ fanSent = {}
  /\ fanLastDeposit = [m \in Modules |-> 0]
  /\ fanRaised = {}
  /\ fanLogged = {}
  /\ fanOnChainFailed = {}
  /\ fanFailures = 0

\* the methods decorated with @OneAtTime()
Methods == {"handleNewBlock", "pauseDepositsV2", "updateBalance"}

\* no method was called yet
OatIdle ==
  /\ oatExecuting = [method \in Methods |-> FALSE]
  /\ oatCall = [method \in Methods |-> "none"]
  /\ oatPrev = [method \in Methods |-> "none"]
  /\ oatInvocation = [method \in Methods |-> "none"]

AuxIdle == HckIdle /\ EcIdle /\ DtIdle /\ SuIdle /\ KaIdle /\ FanIdle /\ OatIdle

FrIdle ==
  /\ frBlockData = NoBlockData
  /\ frModuleData = NoModuleData(1)
  /\ frIndexKeys = {}
  /\ frPc = "off"
  /\ frAttempts = <<>>
  /\ frHistorical = [result |-> FALSE, queried |-> FALSE]

\* the deposit histories of the ticks that fail or see the registry change: no
\* deposit, or deposits with a historical front-run among them (the other
\* histories and paused deposits are cases of SpecPause)
GuardEventLists ==
  {l \in TickEventLists :
     l = <<>> \/ frontRunnedDepositKeys([depositedEvents |-> [events |-> l],
                                         lidoWC |-> LidoWC]) # <<>>}

\* the answers of GET /v1/keys whose keys all carry a valid signature (invalid
\* keys are a case of SpecPause too)
ValidKeyLists ==
  {l \in TickKeyLists : \A i \in 1..Len(l) : l[i].depositSignature = GoodSignature}

Init ==
  /\ EnvInit
  /\ kapiKeys \in ValidKeyLists
  /\ depositedEvents \in GuardEventLists
  /\ ~dsmPaused
  /\ TickInit /\ FrIdle /\ KvInit /\ AuxIdle

\* every deposit history of the bounds, with or without deposits paused
InitPause == EnvInit /\ TickInit /\ FrIdle /\ KvInit /\ AuxIdle

(***************************************************************************)
(* The keys-index and the chain                                            *)
(***************************************************************************)
\* the keys-index indexes a block that changed the registry of one module: its
\* lastChangedBlockHash moves on, the nonce of the module grows
KeysIndexUpdate ==
  /\ kapiLastChangedBlockHash < MaxChangeHash
  /\ kapiLastChangedBlockHash' = kapiLastChangedBlockHash + 1
  /\ \E changed \in Modules :
       kapiNonces' = [kapiNonces EXCEPT ![changed] = kapiNonces[changed] + 1]
  /\ UNCHANGED <<kapiKeys, kapiOperators, depositedEvents, dsmVersion, dsmPaused,
                 signingKeyAdded>>
  /\ UNCHANGED <<tickVars, frVars, kvVars, auxVars>>

\* DepositRegistryService.getDepositRoot: the root of the deposit contract, which
\* commits to the number of deposits
getDepositRoot(events) == Len(events)

\* StakingModuleGuardService.alreadyPausedDeposits: deposits are paused on the
\* deposit security module at the block
alreadyPausedDepositsAt(bd, ver) == dsmPaused

\* the finalized block the execution client reports when the snapshot of the
\* keys-index is at block bn
finalizedBlockNumber(bn) == bn - 1

\* sanityChecker.verifyCacheBlock: false when the cache is written past the block
verifyCacheBlock(cache, currentBlock) == ~(cache.headers.endBlock > currentBlock)

\* faulty variant: the tick goes on with events marked invalid
tickAbortsOnNever(eventGroup) == FALSE

\* an integrity violation aborts the tick: getCurrentBlockData does not hand out
\* deposited events that getAllDepositedEvents marked invalid
tickAbortsOn(eventGroup) == ~eventGroup.isValid

\* DepositRegistryService.updateEventsCache: the cache is extended to the finalized
\* block unless it is already written past it (verifyCacheBlock)
updateEventsCache(endBlock, finalized) ==
  LET isCacheValid == ~(endBlock > finalized)
  IN IF ~isCacheValid THEN endBlock
     ELSE IF finalized > endBlock THEN finalized ELSE endBlock

(***************************************************************************)
(* GuardianService.handleNewBlock                                          *)
(***************************************************************************)
\* the start of the body: the operators call and the block-guard check
HandleNewBlockStart ==
  \E bn \in BlockNumbers, fork \in Forks :
    LET bh == BlockHash(bn, fork)
    IN /\ isExecuting' = TRUE
       /\ running' = running + 1
       /\ meta' = [blockNumber |-> bn, blockHash |-> bh,
                   lastChangedBlockHash |-> kapiLastChangedBlockHash]
       /\ operatorsByModules' =
            [m \in Modules |-> OperatorsByModule(m, kapiNonces[m], kapiOperators[m])]
       /\ IF blockGuardSkips(lastProcessedStateMeta, bh, bn)
          THEN pc' = "end" /\ outcome' = "unchanged"
          ELSE pc' = "keys" /\ outcome' = "running"
       /\ UNCHANGED <<skipped, failures, currMeta, blockData, theftHappened,
                      alreadyPausedDeposits, version, duplicatedKeys, findQueried,
                      stakingModulesData, modPc, lastContractsState, pausePending,
                      sent, pauseSubmitted, unvetSubmitted, serviceVars>>

\* the cron job calls handleNewBlock
CronTick ==
  /\ IF handleNewBlockEnters(isExecuting)
     THEN HandleNewBlockStart
     ELSE /\ skipped' = TRUE
          /\ UNCHANGED <<isExecuting, running, pc, outcome, failures, localVars,
                         sent, pauseSubmitted, unvetSubmitted, serviceVars>>
  /\ UNCHANGED <<envVars, frVars, kvVars, auxVars>>

\* the messages of pauseDepositsV3
pauseDepositsV3(bd, theft, alreadyPaused, ver) ==
  IF pauseDepositsV3Gate(theft, alreadyPaused, ver)
  THEN {Message("pauseV3", 0, bd, 0)}
  ELSE {}

\* the modules pauseDepositsV2 pauses
pauseDepositsV2(smd, bd, theft, ver) ==
  IF pauseDepositsV2Gate(theft, alreadyPausedDepositsAt(bd, ver), ver)
  THEN {smd[m].stakingModuleId : m \in Modules}
  ELSE {}

\* faulty variant: pauseDepositsV2 is called without the version of the contract
pauseStepUngated(smd, bd, theft, alreadyPaused, ver) ==
  [messages |-> pauseDepositsV3(bd, theft, alreadyPaused, ver),
   pending |-> pauseDepositsV2(smd, bd, theft, 2)]

\* handleNewBlock: both pause branches are called, each gated by the version
pauseStep(smd, bd, theft, alreadyPaused, ver) ==
  [messages |-> pauseDepositsV3(bd, theft, alreadyPaused, ver),
   pending |-> pauseDepositsV2(smd, bd, theft, ver)]

\* from the keys call to the pause branches
FetchKeys ==
  /\ pc = "keys"
  /\ currMeta' = [lastChangedBlockHash |-> kapiLastChangedBlockHash]
  /\ IF ~isEqualLastChangedBlockHash(meta.lastChangedBlockHash,
                                     kapiLastChangedBlockHash)
     THEN \* InconsistentLastChangedBlockHash, caught at the end of the body
          /\ pc' = "end"
          /\ outcome' = "aborted"
          /\ UNCHANGED <<blockData, theftHappened, alreadyPausedDeposits, version,
                         duplicatedKeys, findQueried, stakingModulesData, modPc,
                         pausePending, sent, depositCacheEndBlock>>
     ELSE IF tickAbortsOn(
               [isValid |-> verifyCacheBlock(
                              [headers |-> [endBlock |-> depositCacheEndBlock]],
                              meta.blockNumber)])
     THEN \* the cache is written past the block of the tick: updateEventsCache
          \* returns at once, the deposited events are marked invalid
          /\ pc' = "end"
          /\ outcome' = "aborted"
          /\ UNCHANGED <<blockData, theftHappened, alreadyPausedDeposits, version,
                         duplicatedKeys, findQueried, stakingModulesData, modPc,
                         pausePending, sent, depositCacheEndBlock>>
     ELSE \* indexKeys: the deposited keys the keys-index knows
          \E indexKeys \in SUBSET {1} :
            LET bd == [blockNumber |-> meta.blockNumber,
                       blockHash |-> meta.blockHash,
                       depositRoot |-> getDepositRoot(depositedEvents),
                       depositedEvents |-> [events |-> depositedEvents],
                       lidoWC |-> LidoWC]
                historical == getHistoricalFrontRun(bd, indexKeys)
                theft == historical.result
                smd == [m \in Modules |->
                          getStakingModuleData(operatorsByModules[m], meta, kapiKeys)]
                ver == dsmVersion
                alreadyPaused == alreadyPausedDepositsAt(bd, ver)
                step == pauseStep(smd, bd, theft, alreadyPaused, ver)
            IN /\ depositCacheEndBlock' =
                    updateEventsCache(depositCacheEndBlock,
                                      finalizedBlockNumber(meta.blockNumber))
               /\ blockData' = bd
               /\ theftHappened' = theft
               /\ findQueried' = historical.queried
               /\ stakingModulesData' = smd
               /\ version' = ver
               /\ alreadyPausedDeposits' = alreadyPaused
               /\ duplicatedKeys' = getDuplicatedKeys(getVettedKeys(smd, NumModules), signingKeyAdded)
               /\ sent' = sent \cup step.messages
               /\ pausePending' = step.pending
               /\ modPc' = [m \in Modules |-> "check"]
               /\ pc' = IF step.pending = {} THEN "modules" ELSE "pause"
               /\ UNCHANGED outcome
  /\ UNCHANGED <<isExecuting, running, skipped, failures, meta, operatorsByModules,
                 lastContractsState, pauseSubmitted, unvetSubmitted, lastProcessedStateMeta,
                 lastContractsStateByModuleId, pauseIsExecuting, unvetIsExecuting>>
  /\ UNCHANGED <<envVars, frVars, kvVars, auxVars>>

(***************************************************************************)
(* StakingModuleGuardService.pauseDeposits / handleKeysIntersections       *)
(***************************************************************************)
\* faulty variant: the pause message is broadcast for the first module only
pauseMessagesFirstOnly(stakingModuleData, bd) ==
  IF stakingModuleData.stakingModuleId = 1
  THEN {Message("pause", stakingModuleData.stakingModuleId, bd, stakingModuleData.nonce)}
  ELSE {}

\* handleKeysIntersections: the pause message of one module
pauseMessages(stakingModuleData, bd) ==
  {Message("pause", stakingModuleData.stakingModuleId, bd, stakingModuleData.nonce)}

\* faulty variant: the on-chain pause without its @OneAtTime() decorator
pauseDepositsV2EntersAlways(executing) == TRUE

\* @OneAtTime() on the on-chain pause of SecurityService (pauseDepositsV2; the module
\* guard of this version calls it as pauseDeposits): a call made while the
\* transaction of a previous call is pending returns at the guard
pauseDepositsV2Enters(executing) == OneAtTime(executing)

\* handleKeysIntersections of module m: sign, call the on-chain pause without
\* waiting for it, broadcast the pause message
HandleKeysIntersections(m) ==
  /\ pc = "pause"
  /\ m \in pausePending
  /\ IF pauseDepositsV2Enters(pauseIsExecuting)
     THEN /\ pauseIsExecuting' = TRUE
          /\ pauseSubmitted' = pauseSubmitted \cup {m}
     ELSE UNCHANGED <<pauseIsExecuting, pauseSubmitted>>
  /\ sent' = sent \cup pauseMessages(stakingModulesData[m], blockData)
  /\ pausePending' = pausePending \ {m}
  /\ pc' = IF pausePending \ {m} = {} THEN "modules" ELSE "pause"
  /\ UNCHANGED <<isExecuting, running, skipped, failures, outcome, meta, operatorsByModules,
                 currMeta, blockData, theftHappened, alreadyPausedDeposits, version,
                 duplicatedKeys, findQueried, stakingModulesData, modPc,
                 lastContractsState, lastProcessedStateMeta, depositCacheEndBlock,
                 lastContractsStateByModuleId, unvetIsExecuting, unvetSubmitted>>
  /\ UNCHANGED <<envVars, frVars, kvVars, auxVars>>

\* the pauseDeposits transaction in flight is mined: SecurityService.pauseDeposits
\* returns and its OneAtTime flag is released
PauseDepositsDone ==
  /\ pauseIsExecuting
  /\ pauseIsExecuting' = FALSE
  /\ UNCHANGED <<isExecuting, running, skipped, failures, pc, outcome, localVars, sent,
                 pauseSubmitted, unvetSubmitted, lastProcessedStateMeta,
                 depositCacheEndBlock, lastContractsStateByModuleId, unvetIsExecuting>>
  /\ UNCHANGED <<envVars, frVars, kvVars, auxVars>>

(***************************************************************************)
(* handleNewBlock: the branch of one module                                *)
(***************************************************************************)
\* front-run, invalid and duplicated keys of the module, then handleUnvetting
CheckModule(m) ==
  /\ pc = "modules"
  /\ modPc[m] = "check"
  /\ LET stakingModuleData == stakingModulesData[m]
         frontRunKeys == getFrontRunAttempts(stakingModuleData, blockData)
         invalidKeys == getInvalidKeys(stakingModuleData, blockData)
         moduleDuplicatedKeys ==
           SelectSeq(duplicatedKeys,
                     LAMBDA key : key.moduleAddress = stakingModuleData.stakingModuleAddress)
         updated == [stakingModuleData EXCEPT !.invalidKeys = invalidKeys,
                                              !.frontRunKeys = frontRunKeys,
                                              !.duplicatedKeys = moduleDuplicatedKeys]
     IN /\ stakingModulesData' = [stakingModulesData EXCEPT ![m] = updated]
        /\ IF needsUnvetting(updated) /\ handleUnvettingEnters(unvetIsExecuting)
           THEN \* handleUnvetting: sign, broadcast the unvet message, send the
                \* unvetSigningKeys transaction
                /\ unvetIsExecuting' = TRUE
                /\ sent' = sent \cup {UnvetMessage(updated, blockData)}
                /\ unvetSubmitted' = unvetSubmitted \cup {m}
                /\ modPc' = [modPc EXCEPT ![m] = "unvet"]
           ELSE /\ modPc' = [modPc EXCEPT ![m] = "decide"]
                /\ UNCHANGED <<sent, unvetIsExecuting, unvetSubmitted>>
  /\ UNCHANGED <<isExecuting, running, skipped, failures, pc, outcome, meta, operatorsByModules,
                 currMeta, blockData, theftHappened, alreadyPausedDeposits, version,
                 duplicatedKeys, findQueried, lastContractsState, pausePending,
                 pauseSubmitted, lastProcessedStateMeta, depositCacheEndBlock,
                 lastContractsStateByModuleId, pauseIsExecuting>>
  /\ UNCHANGED <<envVars, frVars, kvVars, auxVars>>

\* the unvetting in flight ends: handleUnvetting returns to its module branch,
\* if the tick of that branch is still running, and the flag is released
HandleUnvettingDone ==
  /\ unvetIsExecuting
  /\ unvetIsExecuting' = FALSE
  /\ modPc' = [m \in Modules |-> IF pc = "modules" /\ modPc[m] = "unvet"
                                  THEN "decide" ELSE modPc[m]]
  /\ UNCHANGED <<isExecuting, running, skipped, failures, pc, outcome, meta,
                 operatorsByModules, currMeta, blockData, theftHappened,
                 alreadyPausedDeposits, version, duplicatedKeys, findQueried,
                 stakingModulesData, lastContractsState, pausePending, sent,
                 pauseSubmitted, unvetSubmitted, lastProcessedStateMeta,
                 depositCacheEndBlock, lastContractsStateByModuleId, pauseIsExecuting>>
  /\ UNCHANGED <<envVars, frVars, kvVars, auxVars>>

\* canDeposit, then handleCorrectKeys up to its first await
DecideModule(m) ==
  /\ pc = "modules"
  /\ modPc[m] = "decide"
  /\ IF ~branchReachesHandleCorrectKeys(stakingModulesData[m], theftHappened,
                                        alreadyPausedDeposits)
     THEN \* soft pause: the branch returns
          /\ modPc' = [modPc EXCEPT ![m] = "softPaused"]
          /\ UNCHANGED <<lastContractsState, lastContractsStateByModuleId>>
     ELSE LET current == currentContractState(stakingModulesData[m], blockData)
              last == lastContractsStateByModuleId[m]
              isSameContractsState == isSameContractsStates(current, last)
          IN /\ lastContractsState' = [lastContractsState EXCEPT ![m] = last]
             /\ lastContractsStateByModuleId' =
                  [lastContractsStateByModuleId EXCEPT ![m] = current]
             /\ modPc' = [modPc EXCEPT ![m] = IF isSameContractsState THEN "done"
                                              ELSE "sign"]
  /\ UNCHANGED <<isExecuting, running, skipped, failures, pc, outcome, meta, operatorsByModules,
                 currMeta, blockData, theftHappened, alreadyPausedDeposits, version,
                 duplicatedKeys, findQueried, stakingModulesData, pausePending, sent,
                 pauseSubmitted, unvetSubmitted, lastProcessedStateMeta, depositCacheEndBlock,
                 pauseIsExecuting, unvetIsExecuting>>
  /\ UNCHANGED <<envVars, frVars, kvVars, auxVars>>

\* handleCorrectKeys: signDepositData, then sendDepositMessage
PublishDeposit(m) ==
  /\ pc = "modules"
  /\ modPc[m] = "sign"
  /\ sent' = sent \cup {Message("deposit", stakingModulesData[m].stakingModuleId,
                                blockData, stakingModulesData[m].nonce)}
  /\ modPc' = [modPc EXCEPT ![m] = "done"]
  /\ UNCHANGED <<isExecuting, running, skipped, failures, pc, outcome, meta, operatorsByModules,
                 currMeta, blockData, theftHappened, alreadyPausedDeposits, version,
                 duplicatedKeys, findQueried, stakingModulesData, lastContractsState,
                 pausePending, pauseSubmitted, unvetSubmitted, serviceVars>>
  /\ UNCHANGED <<envVars, frVars, kvVars, auxVars>>

\* after all branches: pingMessageBroker, setLastProcessedStateMeta
CompleteTick ==
  /\ pc = "modules"
  /\ \A m \in Modules : modPc[m] \in {"done", "softPaused"}
  /\ sent' = sent \cup {Message("ping", 0, blockData, 0)}
  /\ lastProcessedStateMeta' =
       setLastProcessedStateMeta(meta.blockHash, meta.blockNumber)
  /\ pc' = "end"
  /\ outcome' = "done"
  /\ UNCHANGED <<isExecuting, running, skipped, failures, localVars, pauseSubmitted, unvetSubmitted,
                 depositCacheEndBlock, lastContractsStateByModuleId,
                 pauseIsExecuting, unvetIsExecuting>>
  /\ UNCHANGED <<envVars, frVars, kvVars, auxVars>>

\* an await of the body rejects (a request to the keys-index, the execution client
\* or the message bus fails): the exception is caught and logged at the end of the
\* body; what was sent stands, the steps not yet taken are not taken
FailTick ==
  /\ pc \in {"keys", "pause", "modules"}
  /\ failures < MaxFailures
  /\ failures' = failures + 1
  /\ pc' = "end"
  /\ outcome' = "failed"
  /\ lastProcessedStateMeta' =
       handleNewBlockCatch(lastProcessedStateMeta, meta.blockHash, meta.blockNumber)
  /\ UNCHANGED <<isExecuting, running, skipped, localVars, sent, pauseSubmitted, unvetSubmitted,
                 depositCacheEndBlock, lastContractsStateByModuleId,
                 pauseIsExecuting, unvetIsExecuting>>
  /\ UNCHANGED <<envVars, frVars, kvVars, auxVars>>

\* handleNewBlock returns: its locals are gone, OneAtTime releases the flag
ReturnFromTick ==
  /\ pc = "end"
  /\ pc' = "idle"
  /\ outcome' = "none"
  /\ isExecuting' = FALSE
  /\ running' = running - 1
  /\ skipped' = FALSE
  /\ UNCHANGED failures
  /\ meta' = NoMeta
  /\ operatorsByModules' = [m \in Modules |-> OperatorsByModule(m, 0, SingleOperator)]
  /\ currMeta' = NoCurrMeta
  /\ blockData' = NoBlockData
  /\ theftHappened' = FALSE
  /\ alreadyPausedDeposits' = FALSE
  /\ version' = 0
  /\ duplicatedKeys' = <<>>
  /\ findQueried' = FALSE
  /\ stakingModulesData' = [m \in Modules |-> NoModuleData(m)]
  /\ modPc' = [m \in Modules |-> "done"]
  /\ lastContractsState' = [m \in Modules |-> NoContractsState]
  /\ pausePending' = {}
  /\ sent' = {}
  /\ pauseSubmitted' = {}
  /\ unvetSubmitted' = {}
  /\ UNCHANGED serviceVars
  /\ UNCHANGED <<envVars, frVars, kvVars, auxVars>>

Next ==
  \/ CronTick
  \/ KeysIndexUpdate
  \/ FetchKeys
  \/ \E m \in Modules : HandleKeysIntersections(m)
  \/ PauseDepositsDone
  \/ HandleUnvettingDone
  \/ \E m \in Modules : CheckModule(m)
  \/ \E m \in Modules : DecideModule(m)
  \/ \E m \in Modules : PublishDeposit(m)
  \/ CompleteTick
  \/ FailTick
  \/ ReturnFromTick

Spec == Init /\ [][Next]_vars

\* the ticks of a daemon whose requests all succeed, on a registry that does not
\* change
NextPause ==
  \/ CronTick
  \/ FetchKeys
  \/ \E m \in Modules : HandleKeysIntersections(m)
  \/ PauseDepositsDone
  \/ \E m \in Modules : CheckModule(m)
  \/ HandleUnvettingDone
  \/ \E m \in Modules : DecideModule(m)
  \/ \E m \in Modules : PublishDeposit(m)
  \/ CompleteTick
  \/ ReturnFromTick

SpecPause == InitPause /\ [][NextPause]_vars

(***************************************************************************)
(* The detection functions on bounded inputs                               *)
(***************************************************************************)
\* deposited-events lists: every event has its own (blockNumber, logIndex); the
\* list is in any order
FrEventLists ==
  {s \in SeqsUpTo(DepositEvents, MaxFrEvents) :
     \A i, j \in 1..Len(s) :
       i # j => <<s[i].blockNumber, s[i].logIndex>> # <<s[j].blockNumber, s[j].logIndex>>}

\* vetted unused keys of a module: distinct pubkeys, in index order
FrKeyLists ==
  {[i \in 1..Len(s) |-> RegistryKey(s[i], GoodSignature, 0, i - 1, FALSE, ModuleAddress(1))] :
     s \in {t \in SeqsUpTo(Pubkeys, Cardinality(Pubkeys)) :
              \A i, j \in 1..Len(t) : i # j => t[i] # t[j]}}

FrInit ==
  /\ frBlockData \in
       {[NoBlockData EXCEPT !.depositedEvents = [events |-> events]] :
          events \in FrEventLists}
  /\ frModuleData = NoModuleData(1)
  /\ frIndexKeys = {}
  /\ frPc = "ready"
  /\ frAttempts = <<>>
  /\ frHistorical = [result |-> FALSE, queried |-> FALSE]

\* getFrontRunAttempts applied to a module with some vetted unused keys
FrAttempts ==
  /\ frPc = "ready"
  /\ \E keys \in FrKeyLists :
       LET stakingModuleData == [NoModuleData(1) EXCEPT !.vettedUnusedKeys = keys]
       IN /\ frModuleData' = stakingModuleData
          /\ frAttempts' = getFrontRunAttempts(stakingModuleData, frBlockData)
  /\ frPc' = "attempts"
  /\ UNCHANGED <<frBlockData, frIndexKeys, frHistorical>>
  /\ UNCHANGED <<envVars, tickVars, kvVars, auxVars>>

\* getHistoricalFrontRun applied against a keys-index holding some pubkeys
FrHistorical ==
  /\ frPc = "ready"
  /\ \E indexKeys \in SUBSET Pubkeys :
       /\ frIndexKeys' = indexKeys
       /\ frHistorical' = getHistoricalFrontRun(frBlockData, indexKeys)
  /\ frPc' = "historical"
  /\ UNCHANGED <<frBlockData, frModuleData, frAttempts>>
  /\ UNCHANGED <<envVars, tickVars, kvVars, auxVars>>

NextFR ==
  \/ FrAttempts
  \/ FrHistorical

InitFR == EnvIdle /\ TickInit /\ FrInit /\ KvInit /\ AuxIdle

SpecFR == InitFR /\ [][NextFR]_vars

(***************************************************************************)
(* Observations used by the properties                                     *)
(***************************************************************************)
MessagesOf(type, m) == {msg \in sent : msg.type = type /\ msg.stakingModuleId = m}

DepositSent(m) == MessagesOf("deposit", m) # {}

PauseV2Sent == \E m \in Modules : MessagesOf("pause", m) # {}

PauseV3Messages == {msg \in sent : msg.type = "pauseV3"}

\* the tick in flight has completed every step and has not returned yet
TickDone == pc = "end" /\ outcome = "done"

\* the tick in flight is past the keys call
PastKeys == pc \in {"pause", "modules"} \/ TickDone

\* the branch of module m is past its key checks
Checked(m) == PastKeys /\ pc # "pause" /\ modPc[m] # "check"

HasFlaggedKeys(m) ==
  \/ stakingModulesData[m].frontRunKeys # <<>>
  \/ stakingModulesData[m].invalidKeys # <<>>
  \/ stakingModulesData[m].duplicatedKeys # <<>>

\* handleCorrectKeys ran for module m in the tick in flight
ReachedHandleCorrectKeys(m) ==
  /\ PastKeys
  /\ pc # "pause"
  /\ modPc[m] \in {"sign", "done"}
  /\ lastContractsStateByModuleId[m] = currentContractState(stakingModulesData[m], blockData)

\* the recorded state a and the current state b agree in everything the re-signing
\* gate is specified to look at
UnchangedInWindow(a, b) ==
  /\ a # NoContractsState
  /\ a.depositRoot = b.depositRoot
  /\ a.nonce = b.nonce
  /\ a.lastChangedBlockHash = b.lastChangedBlockHash
  /\ a.blockNumber \div GUARDIAN_DEPOSIT_RESIGNING_BLOCKS
       = b.blockNumber \div GUARDIAN_DEPOSIT_RESIGNING_BLOCKS

\* some valid deposit with a foreign withdrawal credential is on a vetted unused key
\* of module m
ForeignDepositOnVettedKey(m) ==
  \E e \in Range(blockData.depositedEvents.events) :
    /\ e.valid
    /\ e.wc # blockData.lidoWC
    /\ \E k \in Range(stakingModulesData[m].vettedUnusedKeys) : k.key = e.pubkey

(***************************************************************************)
(* KeysValidationService.getInvalidKeys (SpecKV)                           *)
(***************************************************************************)
\* the lists of keys of a call: up to MaxValidatedKeys keys, the i-th at index i - 1
KvKeyLists ==
  {[i \in 1..Len(s) |->
      RegistryKey(s[i].key, s[i].depositSignature, 0, i - 1, FALSE, ModuleAddress(1))] :
     s \in SeqsUpTo([key : Pubkeys, depositSignature : {GoodSignature, BadSignature}],
                    MaxValidatedKeys)}

\* one call of getInvalidKeys(keys, lidoWC): validateKeys is called once, with the
\* keys needing validation; their results are cached
GetInvalidKeysCall ==
  /\ kvCalls < MaxValidationCalls
  /\ \E keys \in KvKeyLists, lidoWC \in WCs :
       LET needed == keysNeedingValidation(keys, lidoWC, keysCache)
       IN /\ kvKeys' = keys
          /\ kvWC' = lidoWC
          /\ kvValidated' = Append(kvValidated, needed)
          /\ kvResult' = invalidKeysOfCall(keys, lidoWC, keysCache)
          /\ keysCache' = updateCache(keysCache, needed, lidoWC)
  /\ kvCalls' = kvCalls + 1
  /\ kvPrevKeys' = kvKeys
  /\ kvPrevWC' = kvWC
  /\ kvCacheBefore' = keysCache
  /\ UNCHANGED <<envVars, tickVars, frVars, auxVars>>

NextKV == GetInvalidKeysCall

InitKV == EnvIdle /\ TickInit /\ FrIdle /\ KvInit /\ AuxIdle

SpecKV == InitKV /\ [][NextKV]_vars

(***************************************************************************)
(* handleCorrectKeys on given contracts states (SpecHCK)                   *)
(***************************************************************************)
\* the contracts states of one module: nonce, deposit root, block number across a
\* window boundary, lastChangedBlockHash
ContractsStates ==
  [nonce : 0..1, depositRoot : 0..1, blockNumber : BlockNumbers,
   lastChangedBlockHash : ChangeHashes]

\* what the keys-index guarantees of two snapshots of a module: the nonce does not
\* differ while lastChangedBlockHash is the same
KeysIndexConsistent(a, b) ==
  a.nonce # b.nonce => a.lastChangedBlockHash # b.lastChangedBlockHash

\* the states a later tick can bring after the state last: its block is not lower
LaterStates(last) ==
  {s \in ContractsStates : /\ s.blockNumber >= last.blockNumber
                           /\ KeysIndexConsistent(last, s)}

\* handleCorrectKeys is called for a module whose recorded state is any earlier state
\* or none, with any current state
HckInit ==
  /\ hckLastContractsState \in ContractsStates \cup {NoContractsState}
  /\ hckCurrentContractState \in
       IF hckLastContractsState = NoContractsState THEN ContractsStates
       ELSE LaterStates(hckLastContractsState)
  /\ hckRecorded = hckLastContractsState
  /\ hckPc = "call"
  /\ hckSent = {}
  /\ hckCalls = 1
  /\ hckUnpublished = FALSE

\* handleCorrectKeys up to its first await: compare, record, return when the same
HandleCorrectKeysCall ==
  /\ hckPc = "call"
  /\ LET lastContractsState_ == hckRecorded
         isSameContractsState ==
           isSameContractsStates(hckCurrentContractState, lastContractsState_)
     IN /\ hckRecorded' = hckCurrentContractState
        /\ hckPc' = IF isSameContractsState THEN "skipped" ELSE "sign"
        /\ hckUnpublished' = IF isSameContractsState THEN hckUnpublished ELSE TRUE
  /\ UNCHANGED <<hckLastContractsState, hckCurrentContractState, hckSent, hckCalls>>
  /\ UNCHANGED <<baseVars, ecVars, dtVars, suVars, kaVars, fanVars, oatVars>>

\* signDepositData, then sendDepositMessage
HandleCorrectKeysPublish ==
  /\ hckPc = "sign"
  /\ hckSent' = hckSent \cup {[depositRoot |-> hckCurrentContractState.depositRoot,
                               nonce |-> hckCurrentContractState.nonce,
                               blockNumber |-> hckCurrentContractState.blockNumber]}
  /\ hckPc' = "published"
  /\ hckUnpublished' = FALSE
  /\ UNCHANGED <<hckLastContractsState, hckCurrentContractState, hckRecorded, hckCalls>>
  /\ UNCHANGED <<baseVars, ecVars, dtVars, suVars, kaVars, fanVars, oatVars>>

\* signDepositData or sendDepositMessage rejects: handleCorrectKeys throws, the tick
\* is aborted
HandleCorrectKeysThrows ==
  /\ hckPc = "sign"
  /\ hckPc' = "failed"
  /\ UNCHANGED <<hckLastContractsState, hckCurrentContractState, hckRecorded, hckSent,
                 hckCalls, hckUnpublished>>
  /\ UNCHANGED <<baseVars, ecVars, dtVars, suVars, kaVars, fanVars, oatVars>>

\* a later tick calls handleCorrectKeys for the module
HandleCorrectKeysAgain ==
  /\ hckPc \in {"published", "skipped", "failed"}
  /\ hckCalls < MaxHandleCorrectKeysCalls
  /\ hckCalls' = hckCalls + 1
  /\ hckLastContractsState' = hckRecorded
  /\ hckCurrentContractState' \in LaterStates(hckRecorded)
  /\ hckPc' = "call"
  /\ hckSent' = {}
  /\ UNCHANGED <<hckRecorded, hckUnpublished>>
  /\ UNCHANGED <<baseVars, ecVars, dtVars, suVars, kaVars, fanVars, oatVars>>

NextHCK ==
  \/ HandleCorrectKeysCall
  \/ HandleCorrectKeysPublish
  \/ HandleCorrectKeysThrows
  \/ HandleCorrectKeysAgain

InitHCK == EnvIdle /\ TickInit /\ FrIdle /\ KvInit /\ HckInit /\ EcIdle /\ DtIdle /\ SuIdle /\ KaIdle /\ FanIdle /\ OatIdle

SpecHCK == InitHCK /\ [][NextHCK]_vars

(***************************************************************************)
(* DepositRegistryService.updateEventsCache (SpecEC)                       *)
(***************************************************************************)
\* a deposit event stands for itself by the number of its block (one event per
\* block); 0 is no event
NoIndexedEvent == 0

MinOf(a, b) == IF a < b THEN a ELSE b
MaxOf(a, b) == IF a > b THEN a ELSE b

\* the deposit events of the chain in the blocks from..to, in order
RECURSIVE EventsInRange(_, _, _)
EventsInRange(chain, from, to) ==
  IF from > to THEN <<>>
  ELSE (IF from \in chain THEN <<from>> ELSE <<>>) \o EventsInRange(chain, from + 1, to)

\* get_deposit_root at a block: the root over every deposit up to the block; a root
\* stands for itself by the sequence of leaves it commits to
get_deposit_root(chain, blockNumber) == EventsInRange(chain, 0, blockNumber)

\* the root of the index tree
treeRoot(leaves) == leaves

\* getCachedEvents: the stored cache, its headers not below the deployment block
getCachedEvents(store, deploymentBlock) ==
  [headers |-> [startBlock |-> MaxOf(store.headers.startBlock, deploymentBlock),
                endBlock |-> MaxOf(store.headers.endBlock, deploymentBlock)],
   data |-> store.data,
   lastValidEvent |-> store.lastValidEvent]

\* faulty variant: the chunk is not capped by the finalized block
chunkToBlockUncapped(finalized, block) == block + DEPOSIT_EVENTS_STEP - 1

\* the last block of the chunk that starts at block
chunkToBlock(finalized, block) ==
  MinOf(finalized, block + DEPOSIT_EVENTS_STEP - 1)

\* the loop increment
nextChunkStart(block) == block + DEPOSIT_EVENTS_STEP

\* fetcher.fetchEventsFallOver: the events of the range as the node answers; a node
\* that lost logs answers with none
fetchEventsFallOver(chain, from, to, lostLogs) ==
  [events |-> IF lostLogs THEN <<>> ELSE EventsInRange(chain, from, to),
   startBlock |-> from,
   endBlock |-> to]

\* store.insertEventsCacheBatch: the headers replace the stored ones, the events are
\* added
insertEventsCacheBatch(store, headers, data) ==
  [store EXCEPT !.headers = headers, !.data = store.data \o data]

\* faulty variant: the last indexed event is stored whatever the root check says
insertsLastValidEventAnyRoot(isRootValid, lastIndexedEvent) ==
  lastIndexedEvent # NoIndexedEvent

\* the condition under which the run stores lastValidEvent
insertsLastValidEvent(isRootValid, lastIndexedEvent) ==
  isRootValid /\ lastIndexedEvent # NoIndexedEvent

\* the service after initialize() on an empty store, against a chain with deposits
\* in some blocks after the deployment block
EcInit ==
  /\ ecDeploymentBlock \in {0, 1}
  /\ ecChain \in SUBSET ((ecDeploymentBlock + 1)..MaxFinalizedBlock)
  /\ ecStore = DEPOSIT_CACHE_DEFAULT
  /\ ecTree = <<>>
  /\ ecPc = "idle"
  /\ ecFinalizedBlockNumber = 0
  /\ ecInitialCache = DEPOSIT_CACHE_DEFAULT
  /\ ecBlock = 0
  /\ ecLastIndexedEvent = NoIndexedEvent
  /\ ecRuns = 0
  /\ ecChunks = <<>>
  /\ ecRunEvents = <<>>
  /\ ecIsRootValid = "none"
  /\ NoCallOfGetAllDepositedEvents

\* updateEventsCache up to the loop: the finalized block, the cache, verifyCacheBlock
UpdateEventsCacheStart ==
  /\ ecPc = "idle"
  /\ ecRuns < MaxCacheRuns
  /\ ecRuns' = ecRuns + 1
  /\ \E finalized \in 0..MaxFinalizedBlock :
       LET initialCache == getCachedEvents(ecStore, ecDeploymentBlock)
           firstNotCachedBlock == initialCache.headers.endBlock + 1
           isCacheValid == verifyCacheBlock(initialCache, finalized)
       IN /\ ecFinalizedBlockNumber' = finalized
          /\ ecInitialCache' = initialCache
          /\ ecBlock' = firstNotCachedBlock
          /\ ecPc' = IF isCacheValid THEN "loop" ELSE "idle"
          /\ ecIsRootValid' = IF isCacheValid THEN "none" ELSE "aborted"
  /\ ecLastIndexedEvent' = NoIndexedEvent
  /\ ecChunks' = <<>>
  /\ ecRunEvents' = <<>>
  /\ ecCurrentBlock' = 0
  /\ ecAllDepositedEvents' = NoDepositedEvents
  /\ ecFreshFetched' = FALSE
  /\ ecTick' = "none"
  /\ UNCHANGED <<ecDeploymentBlock, ecChain, ecStore, ecTree>>
  /\ UNCHANGED <<baseVars, hckVars, dtVars, suVars, kaVars, fanVars, oatVars>>

\* one iteration of the loop: fetch the chunk, add it to the tree, persist it
UpdateEventsCacheChunk ==
  /\ ecPc = "loop"
  /\ ecBlock <= ecFinalizedBlockNumber
  /\ \E lostLogs \in BOOLEAN :
       LET chunkStartBlock == ecBlock
           chunkTo == chunkToBlock(ecFinalizedBlockNumber, ecBlock)
           chunkEventGroup ==
             fetchEventsFallOver(ecChain, chunkStartBlock, chunkTo, lostLogs)
           lastEventFromGroup ==
             IF chunkEventGroup.events = <<>> THEN NoIndexedEvent
             ELSE chunkEventGroup.events[Len(chunkEventGroup.events)]
       IN /\ ecTree' = ecTree \o chunkEventGroup.events
          /\ ecStore' =
               insertEventsCacheBatch(
                 ecStore,
                 [ecInitialCache.headers EXCEPT !.endBlock = chunkEventGroup.endBlock],
                 chunkEventGroup.events)
          /\ ecLastIndexedEvent' =
               IF lastEventFromGroup # NoIndexedEvent THEN lastEventFromGroup
               ELSE ecLastIndexedEvent
          /\ ecChunks' = Append(ecChunks, [from |-> chunkStartBlock, to |-> chunkTo])
          /\ ecRunEvents' = ecRunEvents \o chunkEventGroup.events
  /\ ecBlock' = nextChunkStart(ecBlock)
  /\ UNCHANGED <<ecDeploymentBlock, ecChain, ecPc, ecFinalizedBlockNumber,
                 ecInitialCache, ecRuns, ecIsRootValid, ecCurrentBlock,
                 ecAllDepositedEvents, ecFreshFetched, ecTick>>
  /\ UNCHANGED <<baseVars, hckVars, dtVars, suVars, kaVars, fanVars, oatVars>>

\* after the loop: verifyUpdatedEvents, insertLastValidEvent
UpdateEventsCacheVerify ==
  /\ ecPc = "loop"
  /\ ~(ecBlock <= ecFinalizedBlockNumber)
  /\ LET isRootValid ==
           treeRoot(ecTree) = get_deposit_root(ecChain, ecFinalizedBlockNumber)
     IN /\ ecStore' =
             IF insertsLastValidEvent(isRootValid, ecLastIndexedEvent)
             THEN [ecStore EXCEPT !.lastValidEvent = ecLastIndexedEvent]
             ELSE ecStore
        /\ ecIsRootValid' = IF isRootValid THEN "valid" ELSE "mismatch"
  /\ ecPc' = "idle"
  /\ UNCHANGED <<ecDeploymentBlock, ecChain, ecTree, ecFinalizedBlockNumber,
                 ecInitialCache, ecBlock, ecLastIndexedEvent, ecRuns, ecChunks,
                 ecRunEvents, ecCurrentBlock, ecAllDepositedEvents, ecFreshFetched,
                 ecTick>>
  /\ UNCHANGED <<baseVars, hckVars, dtVars, suVars, kaVars, fanVars, oatVars>>

\* the fetch of a chunk rejects: updateEventsCache throws
UpdateEventsCacheThrows ==
  /\ ecPc = "loop"
  /\ ecBlock <= ecFinalizedBlockNumber
  /\ ecPc' = "idle"
  /\ ecIsRootValid' = "aborted"
  /\ UNCHANGED <<ecDeploymentBlock, ecChain, ecStore, ecTree, ecFinalizedBlockNumber,
                 ecInitialCache, ecBlock, ecLastIndexedEvent, ecRuns, ecChunks,
                 ecRunEvents, ecCurrentBlock, ecAllDepositedEvents, ecFreshFetched,
                 ecTick>>
  /\ UNCHANGED <<baseVars, hckVars, dtVars, suVars, kaVars, fanVars, oatVars>>

\* store.insertEventsCacheBatch rejects: the chunk was fetched and added to the tree
\* (addEventGroupToIndex), nothing of it is persisted, updateEventsCache throws
UpdateEventsCacheStoreFails ==
  /\ ecPc = "loop"
  /\ ecBlock <= ecFinalizedBlockNumber
  /\ \E lostLogs \in BOOLEAN :
       LET chunkEventGroup ==
             fetchEventsFallOver(ecChain, ecBlock,
                                 chunkToBlock(ecFinalizedBlockNumber, ecBlock), lostLogs)
       IN ecTree' = ecTree \o chunkEventGroup.events
  /\ ecPc' = "idle"
  /\ ecIsRootValid' = "aborted"
  /\ UNCHANGED <<ecDeploymentBlock, ecChain, ecStore, ecFinalizedBlockNumber,
                 ecInitialCache, ecBlock, ecLastIndexedEvent, ecRuns, ecChunks,
                 ecRunEvents, ecCurrentBlock, ecAllDepositedEvents, ecFreshFetched,
                 ecTick>>
  /\ UNCHANGED <<baseVars, hckVars, dtVars, suVars, kaVars, fanVars, oatVars>>

\* faulty variant: the fresh events are added to the running tree itself
verifyFreshEventsInPlace(tree, chain, blockNumber, freshEvents) ==
  [isValid |-> treeRoot(tree \o freshEvents) = get_deposit_root(chain, blockNumber),
   tree |-> tree \o freshEvents]

\* sanityChecker.verifyFreshEvents: the fresh events are added to a clone of the
\* tree, whose root is compared with the root of the contract at the block; the
\* running tree is left as it is
verifyFreshEvents(tree, chain, blockNumber, freshEvents) ==
  [isValid |-> treeRoot(tree \o freshEvents) = get_deposit_root(chain, blockNumber),
   tree |-> tree]

\* faulty variant: fresh events are fetched whatever verifyCacheBlock says
getAllDepositedEventsUnchecked(cachedEvents, tree, chain, blockNumber, lostLogs) ==
  LET firstNotCachedBlock == cachedEvents.headers.endBlock + 1
      freshEventGroup ==
        fetchEventsFallOver(chain, firstNotCachedBlock, blockNumber, lostLogs)
      verified == verifyFreshEvents(tree, chain, blockNumber, freshEventGroup.events)
  IN [group |-> [events |-> cachedEvents.data \o freshEventGroup.events,
                 startBlock |-> cachedEvents.headers.startBlock,
                 endBlock |-> blockNumber,
                 isValid |-> verified.isValid],
      fetched |-> TRUE,
      tree |-> verified.tree]

\* getAllDepositedEvents: the cached events and, unless the cache is written past
\* the block, the fresh ones up to the block, verified against the root at the block
\* (verifyFreshEvents: the tree with the fresh events added)
getAllDepositedEvents(cachedEvents, tree, chain, blockNumber, lostLogs) ==
  LET isCacheValid == verifyCacheBlock(cachedEvents, blockNumber)
      firstNotCachedBlock == cachedEvents.headers.endBlock + 1
      freshEventGroup ==
        fetchEventsFallOver(chain, firstNotCachedBlock, blockNumber, lostLogs)
      verified == verifyFreshEvents(tree, chain, blockNumber, freshEventGroup.events)
  IN IF ~isCacheValid
     THEN [group |-> [events |-> cachedEvents.data,
                      startBlock |-> cachedEvents.headers.startBlock,
                      endBlock |-> cachedEvents.headers.endBlock,
                      isValid |-> FALSE],
           fetched |-> FALSE,
           tree |-> tree]
     ELSE [group |-> [events |-> cachedEvents.data \o freshEventGroup.events,
                      startBlock |-> cachedEvents.headers.startBlock,
                      endBlock |-> blockNumber,
                      isValid |-> verified.isValid],
           fetched |-> TRUE,
           tree |-> verified.tree]

\* a tick at some block, after its run of updateEventsCache: getCurrentBlockData
\* calls getAllDepositedEvents
GetCurrentBlockData ==
  /\ ecPc = "idle"
  /\ ecRuns > 0
  /\ ecTick = "none"
  /\ \E blockNumber \in 0..MaxFinalizedBlock, lostLogs \in BOOLEAN :
       LET call == getAllDepositedEvents(getCachedEvents(ecStore, ecDeploymentBlock),
                                         ecTree, ecChain, blockNumber, lostLogs)
       IN /\ ecCurrentBlock' = blockNumber
          /\ ecAllDepositedEvents' = call.group
          /\ ecFreshFetched' = call.fetched
          /\ ecTick' = IF tickAbortsOn(call.group) THEN "aborted" ELSE "proceeds"
          /\ ecTree' = call.tree
  /\ UNCHANGED <<ecDeploymentBlock, ecChain, ecStore, ecPc,
                 ecFinalizedBlockNumber, ecInitialCache, ecBlock, ecLastIndexedEvent,
                 ecRuns, ecChunks, ecRunEvents, ecIsRootValid>>
  /\ UNCHANGED <<baseVars, hckVars, dtVars, suVars, kaVars, fanVars, oatVars>>

NextEC ==
  \/ GetCurrentBlockData
  \/ UpdateEventsCacheStart
  \/ UpdateEventsCacheChunk
  \/ UpdateEventsCacheVerify
  \/ UpdateEventsCacheThrows
  \/ UpdateEventsCacheStoreFails

InitEC == EnvIdle /\ TickInit /\ FrIdle /\ KvInit /\ HckIdle /\ EcInit /\ DtIdle /\ SuIdle /\ KaIdle /\ FanIdle /\ OatIdle

SpecEC == InitEC /\ [][NextEC]_vars

(***************************************************************************)
(* DepositTree (SpecDT)                                                    *)
(***************************************************************************)
\* the leaves that get inserted
Leaves == {<<1>>, <<2>>}

\* faulty variant: the carry hashes the node in front of the slot
RECURSIVE insertAtSwapped(_, _, _, _)
insertAtSwapped(branch, node, size, h) ==
  IF h >= DEPOSIT_CONTRACT_TREE_DEPTH THEN [branch |-> branch, height |-> h]
  ELSE IF size % 2 = 1 THEN [branch |-> [branch EXCEPT ![h] = node], height |-> h]
  ELSE insertAtSwapped(branch, digest2Bytes32(node, branch[h]), size \div 2, h + 1)

\* the carry of insertNode from height h on: the node goes into the first slot whose
\* bit of size is set, hashed with the slots passed on the way
RECURSIVE insertAt(_, _, _, _)
insertAt(branch, node, size, h) ==
  IF h >= DEPOSIT_CONTRACT_TREE_DEPTH THEN [branch |-> branch, height |-> h]
  ELSE IF size % 2 = 1 THEN [branch |-> [branch EXCEPT ![h] = node], height |-> h]
  ELSE insertAt(branch, digest2Bytes32(branch[h], node), size \div 2, h + 1)

\* insertNode: nodeCount grows by one, one slot of the branch is written
insertNode(tree, node) ==
  LET nodeCount == tree.nodeCount + 1
      written == insertAt(tree.branch, node, nodeCount, 0)
  IN [tree |-> [branch |-> written.branch, nodeCount |-> nodeCount],
      height |-> written.height]

\* the fold of getRoot from height h on
RECURSIVE rootFrom(_, _, _, _)
rootFrom(branch, node, size, h) ==
  IF h >= DEPOSIT_CONTRACT_TREE_DEPTH THEN node
  ELSE IF size % 2 = 1
       THEN rootFrom(branch, digest2Bytes32(branch[h], node), size \div 2, h + 1)
       ELSE rootFrom(branch, digest2Bytes32(node, zeroHashes(h)), size \div 2, h + 1)

\* the k low bytes of n, little endian
RECURSIVE littleEndian(_, _)
littleEndian(n, k) ==
  IF k = 0 THEN <<>> ELSE <<n % 256>> \o littleEndian(n \div 256, k - 1)

\* the node count as the final mix-in takes it: 8 bytes little endian, zero padded
nodeCountBytes(nodeCount) == littleEndian(nodeCount, 8)

\* getRoot: the fold over the branch, mixed with the node count
getRoot(tree) ==
  digest2Bytes32(rootFrom(tree.branch, ZERO_HASH, tree.nodeCount, 0),
                 nodeCountBytes(tree.nodeCount))

\* faulty variant: the clone takes over the arrays in the slots of the original
cloneShallow(tree) == [tree |-> tree, shared |-> Heights]

\* clone: every slot of the branch is copied into an array of its own, so the two
\* trees share no slot
clone(tree) ==
  [tree |-> [branch |-> [h \in Heights |-> tree.branch[h]],
             nodeCount |-> tree.nodeCount],
   shared |-> {}]

\* branch[h][i] = v on an array: the node with the byte overwritten
setByte(node, i, v) == <<node, i, v>>

DtInit ==
  /\ dtTree = NewDepositTree
  /\ dtClone = NewDepositTree
  /\ dtCloned = FALSE
  /\ dtAlias = {}
  /\ dtLeaves = <<>>
  /\ dtCloneLeaves = <<>>
  /\ dtMutated = {}
  /\ dtMutations = 0
  /\ dtLastOp = [op |-> "new", tree |-> "original"]

\* depositTree.insertNode(leaf)
InsertNodeOriginal ==
  /\ Len(dtLeaves) < MaxLeaves
  /\ \E leaf \in Leaves :
       LET inserted == insertNode(dtTree, leaf)
       IN /\ dtTree' = inserted.tree
          /\ dtAlias' = dtAlias \ {inserted.height}
          /\ dtLeaves' = Append(dtLeaves, leaf)
  /\ dtLastOp' = [op |-> "insert", tree |-> "original"]
  /\ UNCHANGED <<dtClone, dtCloned, dtCloneLeaves, dtMutated, dtMutations>>
  /\ UNCHANGED <<baseVars, hckVars, ecVars, suVars, kaVars, fanVars, oatVars>>

\* cloned.insertNode(leaf)
InsertNodeClone ==
  /\ dtCloned
  /\ Len(dtCloneLeaves) < MaxLeaves
  /\ \E leaf \in Leaves :
       LET inserted == insertNode(dtClone, leaf)
       IN /\ dtClone' = inserted.tree
          /\ dtAlias' = dtAlias \ {inserted.height}
          /\ dtCloneLeaves' = Append(dtCloneLeaves, leaf)
  /\ dtLastOp' = [op |-> "insert", tree |-> "clone"]
  /\ UNCHANGED <<dtTree, dtCloned, dtLeaves, dtMutated, dtMutations>>
  /\ UNCHANGED <<baseVars, hckVars, ecVars, suVars, kaVars, fanVars, oatVars>>

\* const cloned = originalTree.clone()
CloneTree ==
  /\ ~dtCloned
  /\ dtCloned' = TRUE
  /\ dtClone' = clone(dtTree).tree
  /\ dtAlias' = clone(dtTree).shared
  /\ dtCloneLeaves' = dtLeaves
  /\ dtMutated' = IF "original" \in dtMutated THEN {"original", "clone"} ELSE {}
  /\ dtLastOp' = [op |-> "clone", tree |-> "original"]
  /\ UNCHANGED <<dtTree, dtLeaves, dtMutations>>
  /\ UNCHANGED <<baseVars, hckVars, ecVars, suVars, kaVars, fanVars, oatVars>>

\* originalTree.branch[h][i] = v: the array in the slot is written in place
SetByteOriginal ==
  /\ dtMutations < MaxMutations
  /\ dtMutations' = dtMutations + 1
  /\ \E h \in Heights, i \in 0..1 :
       /\ dtTree' = [dtTree EXCEPT !.branch[h] = setByte(dtTree.branch[h], i, 1)]
       /\ dtClone' = IF h \in dtAlias
                     THEN [dtClone EXCEPT !.branch[h] = setByte(dtClone.branch[h], i, 1)]
                     ELSE dtClone
       /\ dtMutated' = dtMutated \cup {"original"}
                         \cup (IF h \in dtAlias THEN {"clone"} ELSE {})
  /\ dtLastOp' = [op |-> "setByte", tree |-> "original"]
  /\ UNCHANGED <<dtCloned, dtAlias, dtLeaves, dtCloneLeaves>>
  /\ UNCHANGED <<baseVars, hckVars, ecVars, suVars, kaVars, fanVars, oatVars>>

\* cloned.branch[h][i] = v
SetByteClone ==
  /\ dtCloned
  /\ dtMutations < MaxMutations
  /\ dtMutations' = dtMutations + 1
  /\ \E h \in Heights, i \in 0..1 :
       /\ dtClone' = [dtClone EXCEPT !.branch[h] = setByte(dtClone.branch[h], i, 1)]
       /\ dtTree' = IF h \in dtAlias
                    THEN [dtTree EXCEPT !.branch[h] = setByte(dtTree.branch[h], i, 1)]
                    ELSE dtTree
       /\ dtMutated' = dtMutated \cup {"clone"}
                         \cup (IF h \in dtAlias THEN {"original"} ELSE {})
  /\ dtLastOp' = [op |-> "setByte", tree |-> "clone"]
  /\ UNCHANGED <<dtCloned, dtAlias, dtLeaves, dtCloneLeaves>>
  /\ UNCHANGED <<baseVars, hckVars, ecVars, suVars, kaVars, fanVars, oatVars>>

NextDT ==
  \/ InsertNodeOriginal
  \/ InsertNodeClone
  \/ CloneTree
  \/ SetByteOriginal
  \/ SetByteClone

InitDT == EnvIdle /\ TickInit /\ FrIdle /\ KvInit /\ HckIdle /\ EcIdle /\ DtInit /\ SuIdle /\ KaIdle /\ FanIdle /\ OatIdle

SpecDT == InitDT /\ [][NextDT]_vars

(***************************************************************************)
(* The start of the process (SpecSU)                                       *)
(***************************************************************************)
\* the lowest appVersion of the keys-index the daemon starts with
MIN_KAPI_VERSION == <<0, 1, 0>>

\* faulty variant: a version passes if one of its parts is high enough
compareAnyPart(firstVersion, secondVersion) ==
  \E part \in 1..3 : firstVersion[part] >= secondVersion[part]

\* compare(firstVersion, secondVersion, '>='): the parts are compared in order
compare(firstVersion, secondVersion) ==
  \/ firstVersion[1] > secondVersion[1]
  \/ /\ firstVersion[1] = secondVersion[1]
     /\ firstVersion[2] > secondVersion[2]
  \/ /\ firstVersion[1] = secondVersion[1]
     /\ firstVersion[2] = secondVersion[2]
     /\ firstVersion[3] >= secondVersion[3]

\* process.exit(1)
processExit(code) == <<code>>

SuInit ==
  /\ suPc = "config"
  /\ suEnvValid \in BOOLEAN
  /\ suChainId \in 1..NumChainIds
  /\ suKeysApiStatus \in [chainId : 1..NumChainIds, appVersion : AppVersions]
  /\ suDone = {}
  /\ suExit = <<>>
  /\ suCronStarted = FALSE
  /\ suTicks = 0

\* ConfigModule.forRoot useFactory: validateOrReject, process.exit(1) on errors
ConfigValidate ==
  /\ suPc = "config"
  /\ IF suEnvValid
     THEN /\ suPc' = "contracts"
          /\ suDone' = suDone \cup {"config"}
          /\ UNCHANGED suExit
     ELSE /\ suPc' = "exited"
          /\ suExit' = processExit(1)
          /\ UNCHANGED suDone
  /\ UNCHANGED <<suEnvValid, suChainId, suKeysApiStatus, suCronStarted, suTicks>>
  /\ UNCHANGED <<baseVars, hckVars, ecVars, dtVars, kaVars, fanVars, oatVars>>

\* await this.repositoryService.initOrWaitCachedContracts()
InitOrWaitCachedContracts ==
  /\ suPc = "contracts"
  /\ suPc' = "initialize"
  /\ suDone' = suDone \cup {"contracts"}
  /\ UNCHANGED <<suEnvValid, suChainId, suKeysApiStatus, suExit, suCronStarted, suTicks>>
  /\ UNCHANGED <<baseVars, hckVars, ecVars, dtVars, kaVars, fanVars, oatVars>>

\* await Promise.all([depositService.initialize, securityService.initialize]): the
\* two complete in either order
ServiceInitialize ==
  /\ suPc = "initialize"
  /\ \E service \in {"depositService", "securityService"} \ suDone :
       /\ suDone' = suDone \cup {service}
       /\ suPc' = IF {"depositService", "securityService"} \subseteq suDone'
                  THEN "getChainId"
                  ELSE "initialize"
  /\ UNCHANGED <<suEnvValid, suChainId, suKeysApiStatus, suExit, suCronStarted, suTicks>>
  /\ UNCHANGED <<baseVars, hckVars, ecVars, dtVars, kaVars, fanVars, oatVars>>

\* const chainId = await this.providerService.getChainId()
GetChainId ==
  /\ suPc = "getChainId"
  /\ suPc' = "getKeysApiStatus"
  /\ UNCHANGED <<suEnvValid, suChainId, suKeysApiStatus, suDone, suExit, suCronStarted,
                 suTicks>>
  /\ UNCHANGED <<baseVars, hckVars, ecVars, dtVars, kaVars, fanVars, oatVars>>

\* const keysApiStatus = await this.keysApiService.getKeysApiStatus()
GetKeysApiStatus ==
  /\ suPc = "getKeysApiStatus"
  /\ suPc' = "checkChainId"
  /\ UNCHANGED <<suEnvValid, suChainId, suKeysApiStatus, suDone, suExit, suCronStarted,
                 suTicks>>
  /\ UNCHANGED <<baseVars, hckVars, ecVars, dtVars, kaVars, fanVars, oatVars>>

\* if (chainId !== keysApiStatus.chainId) throw, caught by process.exit(1)
CheckChainId ==
  /\ suPc = "checkChainId"
  /\ IF suChainId # suKeysApiStatus.chainId
     THEN /\ suPc' = "exited"
          /\ suExit' = processExit(1)
          /\ UNCHANGED suDone
     ELSE /\ suPc' = "checkVersion"
          /\ suDone' = suDone \cup {"chainId"}
          /\ UNCHANGED suExit
  /\ UNCHANGED <<suEnvValid, suChainId, suKeysApiStatus, suCronStarted, suTicks>>
  /\ UNCHANGED <<baseVars, hckVars, ecVars, dtVars, kaVars, fanVars, oatVars>>

\* if (!compare(keysApiStatus.appVersion, MIN_KAPI_VERSION, '>=')) throw, caught by
\* process.exit(1)
CheckVersion ==
  /\ suPc = "checkVersion"
  /\ IF ~compare(suKeysApiStatus.appVersion, MIN_KAPI_VERSION)
     THEN /\ suPc' = "exited"
          /\ suExit' = processExit(1)
          /\ UNCHANGED suDone
     ELSE /\ suPc' = "updateEventsCache"
          /\ suDone' = suDone \cup {"appVersion"}
          /\ UNCHANGED suExit
  /\ UNCHANGED <<suEnvValid, suChainId, suKeysApiStatus, suCronStarted, suTicks>>
  /\ UNCHANGED <<baseVars, hckVars, ecVars, dtVars, kaVars, fanVars, oatVars>>

\* await this.depositService.updateEventsCache()
FirstUpdateEventsCache ==
  /\ suPc = "updateEventsCache"
  /\ suPc' = "subscribe"
  /\ suDone' = suDone \cup {"updateEventsCache"}
  /\ UNCHANGED <<suEnvValid, suChainId, suKeysApiStatus, suExit, suCronStarted, suTicks>>
  /\ UNCHANGED <<baseVars, hckVars, ecVars, dtVars, kaVars, fanVars, oatVars>>

\* one of the awaited steps rejects: catch, logger.error, process.exit(1)
InitStepThrows ==
  /\ suPc \in {"contracts", "initialize", "getChainId", "getKeysApiStatus",
                "updateEventsCache"}
  /\ suPc' = "exited"
  /\ suExit' = processExit(1)
  /\ UNCHANGED <<suEnvValid, suChainId, suKeysApiStatus, suDone, suCronStarted, suTicks>>
  /\ UNCHANGED <<baseVars, hckVars, ecVars, dtVars, kaVars, fanVars, oatVars>>

\* subscribeToModulesUpdates: new CronJob, cron.start()
SubscribeToModulesUpdates ==
  /\ suPc = "subscribe"
  /\ suPc' = "running"
  /\ suCronStarted' = TRUE
  /\ UNCHANGED <<suEnvValid, suChainId, suKeysApiStatus, suDone, suExit, suTicks>>
  /\ UNCHANGED <<baseVars, hckVars, ecVars, dtVars, kaVars, fanVars, oatVars>>

\* the cron job fires: handleNewBlock
GuardianCronJob ==
  /\ suCronStarted
  /\ suExit = <<>>
  /\ suTicks < MaxCronTicks
  /\ suTicks' = suTicks + 1
  /\ UNCHANGED <<suPc, suEnvValid, suChainId, suKeysApiStatus, suDone, suExit,
                 suCronStarted>>
  /\ UNCHANGED <<baseVars, hckVars, ecVars, dtVars, kaVars, fanVars, oatVars>>

NextSU ==
  \/ ConfigValidate
  \/ InitOrWaitCachedContracts
  \/ ServiceInitialize
  \/ GetChainId
  \/ GetKeysApiStatus
  \/ CheckChainId
  \/ CheckVersion
  \/ FirstUpdateEventsCache
  \/ InitStepThrows
  \/ SubscribeToModulesUpdates
  \/ GuardianCronJob

InitSU == EnvIdle /\ TickInit /\ FrIdle /\ KvInit /\ HckIdle /\ EcIdle /\ DtIdle /\ SuInit /\ KaIdle /\ FanIdle /\ OatIdle

SpecSU == InitSU /\ [][NextSU]_vars

(***************************************************************************)
(* KeysApiService.getKeys (SpecKA)                                         *)
(***************************************************************************)
\* a KeyListResponse: the hash of its meta and the keys it lists
KeyListResponse(lastChangedBlockHash, data) ==
  [meta |-> [elBlockSnapshot |-> [lastChangedBlockHash |-> lastChangedBlockHash]],
   data |-> data]

KeyListResponses ==
  {KeyListResponse(h, d) : h \in 1..NumKeysHashes, d \in 1..2}

\* faulty variant: the hashes of the two requests are not compared
verifyMetaDataConsistencyNeverThrows(firstRequestHash, secondRequestHash) == FALSE

\* verifyMetaDataConsistency: throws InconsistentLastChangedBlockHash when the
\* hashes differ
verifyMetaDataConsistency(firstRequestHash, secondRequestHash) ==
  firstRequestHash # secondRequestHash

\* updateCachedKeys: fetch /v1/keys, verify the hash, then replace the cache
updateCachedKeys(cachedKeys, elBlockSnapshot, response, fetchFails) ==
  IF fetchFails
  THEN [requested |-> TRUE, threw |-> TRUE, result |-> NoCachedKeys,
        cachedKeys |-> cachedKeys]
  ELSE IF verifyMetaDataConsistency(
            elBlockSnapshot.lastChangedBlockHash,
            response.meta.elBlockSnapshot.lastChangedBlockHash)
  THEN [requested |-> TRUE, threw |-> TRUE, result |-> NoCachedKeys,
        cachedKeys |-> cachedKeys]
  ELSE [requested |-> TRUE, threw |-> FALSE, result |-> response,
        cachedKeys |-> response]

\* getKeys: the cached list if its hash is the one asked for, else updateCachedKeys
getKeys(cachedKeys, elBlockSnapshot, response, fetchFails) ==
  IF cachedKeys = NoCachedKeys
  THEN updateCachedKeys(cachedKeys, elBlockSnapshot, response, fetchFails)
  ELSE IF cachedKeys.meta.elBlockSnapshot.lastChangedBlockHash
            # elBlockSnapshot.lastChangedBlockHash
  THEN updateCachedKeys(cachedKeys, elBlockSnapshot, response, fetchFails)
  ELSE [requested |-> FALSE, threw |-> FALSE, result |-> cachedKeys,
        cachedKeys |-> cachedKeys]

KaInit ==
  /\ kaCachedKeys = NoCachedKeys
  /\ kaIndex \in KeyListResponses
  /\ kaCalls = 0
  /\ kaCall = NoGetKeysCall

\* the keys of the staking modules change: the keys-index answers with another list
KeysIndexChanges ==
  /\ \E response \in KeyListResponses :
       /\ response.meta.elBlockSnapshot.lastChangedBlockHash
            # kaIndex.meta.elBlockSnapshot.lastChangedBlockHash
       /\ kaIndex' = response
  /\ UNCHANGED <<kaCachedKeys, kaCalls, kaCall>>
  /\ UNCHANGED <<baseVars, hckVars, ecVars, dtVars, suVars, fanVars, oatVars>>

\* a call of getKeys with the snapshot of an operators call made before
GetKeysCall ==
  /\ kaCalls < MaxGetKeysCalls
  /\ kaCalls' = kaCalls + 1
  /\ \E h \in 1..NumKeysHashes, fetchFails \in BOOLEAN :
       LET call == getKeys(kaCachedKeys, [lastChangedBlockHash |-> h], kaIndex,
                           fetchFails)
       IN /\ kaCachedKeys' = call.cachedKeys
          /\ kaCall' = [snapshot |-> h, requested |-> call.requested,
                        threw |-> call.threw, result |-> call.result,
                        cachedBefore |-> kaCachedKeys, response |-> kaIndex,
                        failed |-> fetchFails /\ call.requested]
  /\ UNCHANGED kaIndex
  /\ UNCHANGED <<baseVars, hckVars, ecVars, dtVars, suVars, fanVars, oatVars>>

NextKA ==
  \/ KeysIndexChanges
  \/ GetKeysCall

InitKA == EnvIdle /\ TickInit /\ FrIdle /\ KvInit /\ HckIdle /\ EcIdle /\ DtIdle /\ SuIdle /\ KaInit /\ FanIdle /\ OatIdle

SpecKA == InitKA /\ [][NextKA]_vars

(***************************************************************************)
(* handleNewBlock and the branches of its Promise.all (SpecFan)            *)
(*                                                                         *)
(* Promise.all rejects with the first rejection of a branch and leaves the *)
(* other branches running: they go on after the catch and the return of    *)
(* handleNewBlock.  Every branch is followed to its end here.              *)
(***************************************************************************)
\* faulty variant: the catch throws the error again
handleNewBlockRethrows(threw) == IF threw THEN "rejected" ELSE "resolved"

\* try / catch / finally around the whole body of handleNewBlock: the promise of
\* the call resolves whether the body threw or not
handleNewBlockSettles(threw) == "resolved"

\* what a branch of a module has in hand: the data of its module and of the block
\* of its tick (no flagged key, one deposit root, one state of the keys-index)
FanModuleData(m) == [NoModuleData(m) EXCEPT !.lastChangedBlockHash = 1]

FanBlockData(t) ==
  [NoBlockData EXCEPT !.blockNumber = fanBlock[t],
                      !.blockHash = BlockHash(fanBlock[t], 1)]

\* a message handed to the bus by a branch of tick t: late when the body of the
\* tick is no longer in flight, after: the block of the deposit message published
\* before it for the module
FanMessage(type, m, t) ==
  [type |-> type, stakingModuleId |-> m, blockNumber |-> fanBlock[t], tick |-> t,
   late |-> fanCur # t,
   after |-> IF type = "deposit" THEN fanLastDeposit[m] ELSE 0]

\* an exception raised by a branch of tick t: rejects when the Promise.all the body
\* waits on is still pending, inTick while the body is in flight
FanException(t, m, stage) ==
  [tick |-> t, module |-> m, stage |-> stage,
   rejects |-> fanCur = t /\ fanPc = stage,
   inTick |-> fanCur = t]

\* the cron job calls handleNewBlock and OneAtTime lets the call in: the operators
\* call, the block guard, the data of the block, then pauseDepositsV2 (one
\* handleKeysIntersections per module on a theft) or the fan-out over the modules
FanHandleNewBlockStart ==
  /\ fanTicks < MaxFanTicks
  /\ handleNewBlockEnters(fanExecuting)
  /\ LET t == fanTicks + 1
         prev == IF fanTicks = 0 THEN MinBlock ELSE fanBlock[fanTicks]
     IN \E bn \in BlockNumbers, theft \in BOOLEAN :
          /\ bn >= prev
          /\ fanTicks' = t
          /\ fanExecuting' = TRUE
          /\ fanCur' = t
          /\ fanBlock' = [fanBlock EXCEPT ![t] = bn]
          /\ fanTheft' = [fanTheft EXCEPT ![t] = theft]
          /\ IF blockGuardSkips(fanLastProcessed, BlockHash(bn, 1), bn)
             THEN /\ fanPc' = "end"
                  /\ fanOutcome' = [fanOutcome EXCEPT ![t] = "unchanged"]
                  /\ UNCHANGED <<fanPause, fanBranch>>
             ELSE IF pauseDepositsV2Gate(theft, FALSE, 2)
             THEN /\ fanPc' = "pause"
                  /\ fanOutcome' = [fanOutcome EXCEPT ![t] = "running"]
                  /\ fanPause' = [fanPause EXCEPT ![t] = [m \in Modules |-> "sign"]]
                  /\ UNCHANGED fanBranch
             ELSE /\ fanPc' = "modules"
                  /\ fanOutcome' = [fanOutcome EXCEPT ![t] = "running"]
                  /\ fanBranch' = [fanBranch EXCEPT ![t] = [m \in Modules |-> "check"]]
                  /\ UNCHANGED fanPause
  /\ UNCHANGED <<fanSettled, fanLast, fanLastProcessed, fanSent, fanLastDeposit,
                 fanRaised, fanLogged, fanOnChainFailed, fanFailures>>
  /\ UNCHANGED <<baseVars, hckVars, ecVars, dtVars, suVars, kaVars, oatVars>>

\* handleKeysIntersections of module m in tick t: signPauseData resolved; the
\* on-chain pause is called without waiting for it and its rejection is logged
FanSignPause(t, m) ==
  /\ fanPause[t][m] = "sign"
  /\ fanPause' = [fanPause EXCEPT ![t][m] = "send"]
  /\ \E onChainFails \in BOOLEAN :
       fanOnChainFailed' = IF onChainFails THEN fanOnChainFailed \cup {<<t, m>>}
                           ELSE fanOnChainFailed
  /\ UNCHANGED <<fanTicks, fanExecuting, fanCur, fanPc, fanBlock, fanTheft, fanBranch,
                 fanOutcome, fanSettled, fanLast, fanLastProcessed, fanSent,
                 fanLastDeposit, fanRaised, fanLogged, fanFailures>>
  /\ UNCHANGED <<baseVars, hckVars, ecVars, dtVars, suVars, kaVars, oatVars>>

\* sendPauseMessage of module m resolved; when it was the last of the Promise.all
\* of pauseDeposits and the body still waits on it, the body goes on and starts
\* the branches of the fan-out
FanSendPause(t, m) ==
  /\ fanPause[t][m] = "send"
  /\ fanPause' = [fanPause EXCEPT ![t][m] = "done"]
  /\ fanSent' = fanSent \cup {FanMessage("pause", m, t)}
  /\ IF /\ fanCur = t
        /\ fanPc = "pause"
        /\ \A other \in Modules \ {m} : fanPause[t][other] = "done"
     THEN /\ fanPc' = "modules"
          /\ fanBranch' = [fanBranch EXCEPT ![t] = [b \in Modules |-> "check"]]
     ELSE UNCHANGED <<fanPc, fanBranch>>
  /\ UNCHANGED <<fanTicks, fanExecuting, fanCur, fanBlock, fanTheft, fanOutcome,
                 fanSettled, fanLast, fanLastProcessed, fanLastDeposit, fanRaised,
                 fanLogged, fanOnChainFailed, fanFailures>>
  /\ UNCHANGED <<baseVars, hckVars, ecVars, dtVars, suVars, kaVars, oatVars>>

\* signPauseData or sendPauseMessage of module m rejects: pauseDeposits rejects and
\* the catch of handleNewBlock logs the error, if the body still waits on it
FanPauseThrows(t, m) ==
  /\ fanPause[t][m] \in {"sign", "send"}
  /\ fanFailures < MaxFanFailures
  /\ fanFailures' = fanFailures + 1
  /\ fanPause' = [fanPause EXCEPT ![t][m] = "failed"]
  /\ fanRaised' = fanRaised \cup {FanException(t, m, "pause")}
  /\ IF FanException(t, m, "pause").rejects
     THEN /\ fanPc' = "end"
          /\ fanOutcome' = [fanOutcome EXCEPT ![t] = "failed"]
          /\ fanLogged' = fanLogged \cup {FanException(t, m, "pause")}
     ELSE UNCHANGED <<fanPc, fanOutcome, fanLogged>>
  /\ UNCHANGED <<fanTicks, fanExecuting, fanCur, fanBlock, fanTheft, fanBranch,
                 fanSettled, fanLast, fanLastProcessed, fanSent, fanLastDeposit,
                 fanOnChainFailed>>
  /\ UNCHANGED <<baseVars, hckVars, ecVars, dtVars, suVars, kaVars, oatVars>>

\* the branch of module m in tick t after getInvalidKeys and handleUnvetting
\* resolved: canDeposit, then handleCorrectKeys up to its first await
FanDecideModule(t, m) ==
  /\ fanBranch[t][m] = "check"
  /\ IF ~branchReachesHandleCorrectKeys(FanModuleData(m), fanTheft[t], FALSE)
     THEN /\ fanBranch' = [fanBranch EXCEPT ![t][m] = "softPaused"]
          /\ UNCHANGED fanLast
     ELSE LET current == currentContractState(FanModuleData(m), FanBlockData(t))
              isSameContractsState == isSameContractsStates(current, fanLast[m])
          IN /\ fanLast' = [fanLast EXCEPT ![m] = current]
             /\ fanBranch' = [fanBranch EXCEPT ![t][m] =
                                IF isSameContractsState THEN "done" ELSE "sign"]
  /\ UNCHANGED <<fanTicks, fanExecuting, fanCur, fanPc, fanBlock, fanTheft, fanPause,
                 fanOutcome, fanSettled, fanLastProcessed, fanSent, fanLastDeposit,
                 fanRaised, fanLogged, fanOnChainFailed, fanFailures>>
  /\ UNCHANGED <<baseVars, hckVars, ecVars, dtVars, suVars, kaVars, oatVars>>

\* handleCorrectKeys: signDepositData and sendDepositMessage resolved
FanPublishDeposit(t, m) ==
  /\ fanBranch[t][m] = "sign"
  /\ fanBranch' = [fanBranch EXCEPT ![t][m] = "done"]
  /\ fanSent' = fanSent \cup {FanMessage("deposit", m, t)}
  /\ fanLastDeposit' = [fanLastDeposit EXCEPT ![m] = fanBlock[t]]
  /\ UNCHANGED <<fanTicks, fanExecuting, fanCur, fanPc, fanBlock, fanTheft, fanPause,
                 fanOutcome, fanSettled, fanLast, fanLastProcessed, fanRaised,
                 fanLogged, fanOnChainFailed, fanFailures>>
  /\ UNCHANGED <<baseVars, hckVars, ecVars, dtVars, suVars, kaVars, oatVars>>

\* an await of the branch of module m rejects (getInvalidKeys, handleUnvetting,
\* signDepositData, sendDepositMessage): Promise.all rejects with it and the catch
\* of handleNewBlock logs it, if Promise.all is still pending; a later rejection
\* changes nothing of a promise that is settled
FanBranchThrows(t, m) ==
  /\ fanBranch[t][m] \in {"check", "sign"}
  /\ fanFailures < MaxFanFailures
  /\ fanFailures' = fanFailures + 1
  /\ fanBranch' = [fanBranch EXCEPT ![t][m] = "failed"]
  /\ fanRaised' = fanRaised \cup {FanException(t, m, "modules")}
  /\ IF FanException(t, m, "modules").rejects
     THEN /\ fanPc' = "end"
          /\ fanOutcome' = [fanOutcome EXCEPT ![t] = "failed"]
          /\ fanLogged' = fanLogged \cup {FanException(t, m, "modules")}
     ELSE UNCHANGED <<fanPc, fanOutcome, fanLogged>>
  /\ UNCHANGED <<fanTicks, fanExecuting, fanCur, fanBlock, fanTheft, fanPause,
                 fanSettled, fanLast, fanLastProcessed, fanSent, fanLastDeposit,
                 fanOnChainFailed>>
  /\ UNCHANGED <<baseVars, hckVars, ecVars, dtVars, suVars, kaVars, oatVars>>

\* every branch resolved: Promise.all resolves, pingMessageBroker,
\* setLastProcessedStateMeta
FanCompleteTick ==
  /\ fanCur # 0
  /\ fanPc = "modules"
  /\ \A m \in Modules : fanBranch[fanCur][m] \in {"done", "softPaused"}
  /\ fanSent' = fanSent \cup {FanMessage("ping", 0, fanCur)}
  /\ fanLastProcessed' =
       setLastProcessedStateMeta(BlockHash(fanBlock[fanCur], 1), fanBlock[fanCur])
  /\ fanPc' = "end"
  /\ fanOutcome' = [fanOutcome EXCEPT ![fanCur] = "done"]
  /\ UNCHANGED <<fanTicks, fanExecuting, fanCur, fanBlock, fanTheft, fanPause,
                 fanBranch, fanSettled, fanLast, fanLastDeposit, fanRaised, fanLogged,
                 fanOnChainFailed, fanFailures>>
  /\ UNCHANGED <<baseVars, hckVars, ecVars, dtVars, suVars, kaVars, oatVars>>

\* handleNewBlock returns after its finally: the promise of the call settles and
\* OneAtTime releases the flag
FanReturnFromTick ==
  /\ fanCur # 0
  /\ fanPc = "end"
  /\ fanSettled' = [fanSettled EXCEPT ![fanCur] =
                      handleNewBlockSettles(fanOutcome[fanCur] = "failed")]
  /\ fanPc' = "idle"
  /\ fanCur' = 0
  /\ fanExecuting' = FALSE
  /\ UNCHANGED <<fanTicks, fanBlock, fanTheft, fanPause, fanBranch, fanOutcome,
                 fanLast, fanLastProcessed, fanSent, fanLastDeposit, fanRaised,
                 fanLogged, fanOnChainFailed, fanFailures>>
  /\ UNCHANGED <<baseVars, hckVars, ecVars, dtVars, suVars, kaVars, oatVars>>

NextFan ==
  \/ FanHandleNewBlockStart
  \/ \E t \in FanTicks, m \in Modules : FanSignPause(t, m)
  \/ \E t \in FanTicks, m \in Modules : FanSendPause(t, m)
  \/ \E t \in FanTicks, m \in Modules : FanPauseThrows(t, m)
  \/ \E t \in FanTicks, m \in Modules : FanDecideModule(t, m)
  \/ \E t \in FanTicks, m \in Modules : FanPublishDeposit(t, m)
  \/ \E t \in FanTicks, m \in Modules : FanBranchThrows(t, m)
  \/ FanCompleteTick
  \/ FanReturnFromTick

InitFan == EnvIdle /\ TickInit /\ FrIdle /\ KvInit /\ HckIdle /\ EcIdle /\ DtIdle /\ SuIdle /\ KaIdle /\ FanIdle /\ OatIdle

SpecFan == InitFan /\ [][NextFan]_vars

(***************************************************************************)
(* The methods under @OneAtTime() (SpecOAT)                                *)
(***************************************************************************)
\* faulty variant: the flag is released only by a call that did not throw
executingAfterCallThatDidNotThrow(how) == how = "threw"

\* OneAtTime: the flag is the call in flight; however the call ends, it is not
\* executing afterwards
executingAfterCall(how) == FALSE

\* how the body of a method can end: handleNewBlock returns at the block guard or
\* at its end (its catch lets nothing out); the on-chain pause and updateBalance
\* await the node and reject when it does
Endings(method) ==
  IF method = "handleNewBlock" THEN {"completed", "returnedEarly"}
  ELSE {"completed", "threw"}

\* an invocation (the cron job, handleKeysIntersections, a block event of the
\* provider) that the decorator lets in
OatEnter(method) ==
  /\ OneAtTime(oatExecuting[method])
  /\ oatExecuting' = [oatExecuting EXCEPT ![method] = TRUE]
  /\ oatPrev' = [oatPrev EXCEPT ![method] = oatCall[method]]
  /\ oatCall' = [oatCall EXCEPT ![method] = "running"]
  /\ oatInvocation' = [oatInvocation EXCEPT ![method] = "entered"]
  /\ UNCHANGED <<baseVars, hckVars, ecVars, dtVars, suVars, kaVars, fanVars>>

\* an invocation made while a call is in flight returns at once
OatSkip(method) ==
  /\ ~OneAtTime(oatExecuting[method])
  /\ oatInvocation' = [oatInvocation EXCEPT ![method] = "skipped"]
  /\ UNCHANGED <<oatExecuting, oatCall, oatPrev>>
  /\ UNCHANGED <<baseVars, hckVars, ecVars, dtVars, suVars, kaVars, fanVars>>

\* the call in flight ends
OatEnd(method) ==
  /\ oatCall[method] = "running"
  /\ \E how \in Endings(method) :
       /\ oatCall' = [oatCall EXCEPT ![method] = how]
       /\ oatExecuting' = [oatExecuting EXCEPT ![method] = executingAfterCall(how)]
  /\ UNCHANGED <<oatPrev, oatInvocation>>
  /\ UNCHANGED <<baseVars, hckVars, ecVars, dtVars, suVars, kaVars, fanVars>>

NextOAT ==
  \/ \E method \in Methods : OatEnter(method)
  \/ \E method \in Methods : OatSkip(method)
  \/ \E method \in Methods : OatEnd(method)

InitOAT == EnvIdle /\ TickInit /\ FrIdle /\ KvInit /\ HckIdle /\ EcIdle /\ DtIdle /\ SuIdle /\ KaIdle /\ FanIdle /\ OatIdle

SpecOAT == InitOAT /\ [][NextOAT]_vars

\* every call in flight ends, and the cron job goes on calling handleNewBlock
SpecOATFair ==
  /\ SpecOAT
  /\ \A method \in Methods : WF_vars(OatEnd(method))
  /\ WF_vars(OatEnter("handleNewBlock"))

(***************************************************************************)
(* Ticks over registries with repeated pubkeys (SpecDup)                   *)
(***************************************************************************)
\* the key slots of the registries: two keys of operator 0 and one key of operator
\* 1 in module 1, one key of operator 0 in module 2
DupSlots ==
  <<[moduleId |-> 1, operatorIndex |-> 0, index |-> 0],
    [moduleId |-> 1, operatorIndex |-> 0, index |-> 1],
    [moduleId |-> 1, operatorIndex |-> 1, index |-> 0],
    [moduleId |-> 2, operatorIndex |-> 0, index |-> 0]>>

\* the pubkey repeated in the slots of copies is 1, every other slot has its own
DupPubkey(s, copies) == IF s \in copies THEN 1 ELSE s + 2

\* the slots holding the repeated pubkey: none, two or three of them
DupCopies == {S \in SUBSET DOMAIN DupSlots : Cardinality(S) \in {0, 2, 3}}

\* the keys of the keys-index: the first key of operator 0 of module 1 may be
\* deposited, its second key may have a signature that does not verify
DupKeys(copies, usedFirst, badSecond) ==
  [s \in DOMAIN DupSlots |->
     RegistryKey(DupPubkey(s, copies),
                 IF s = 2 /\ badSecond THEN BadSignature ELSE GoodSignature,
                 DupSlots[s].operatorIndex, DupSlots[s].index,
                 s = 1 /\ usedFirst, ModuleAddress(DupSlots[s].moduleId))]

\* SigningKeyAdded events adding the slots in the order given: one per block, or
\* all in one block in the order of their log index
SigningKeyAddedIn(order, sameBlock) ==
  {[moduleAddress |-> ModuleAddress(DupSlots[order[i]].moduleId),
    operatorIndex |-> DupSlots[order[i]].operatorIndex,
    index |-> DupSlots[order[i]].index,
    blockNumber |-> IF sameBlock THEN 1 ELSE i,
    logIndex |-> IF sameBlock THEN i ELSE Len(order) - i] : i \in DOMAIN order}

\* the histories of SigningKeyAdded events; the empty one is a cache without records
DupHistories ==
  {SigningKeyAddedIn(<<1, 2, 3, 4>>, FALSE), SigningKeyAddedIn(<<4, 3, 2, 1>>, FALSE),
   SigningKeyAddedIn(<<3, 1, 4, 2>>, TRUE), {}}

\* the deposits of the chain: none, or one valid deposit on the repeated pubkey
\* with a withdrawal credential that is not Lido's
DupEventLists ==
  {<<>>,
   <<[pubkey |-> 1, wc |-> BadWC, valid |-> TRUE, blockNumber |-> 1, logIndex |-> 0]>>}

DupEnvInit ==
  \E copies \in DupCopies, usedFirst \in BOOLEAN, badSecond \in BOOLEAN,
     limit0 \in 0..2, limit1 \in 0..1, limit2 \in 0..1 :
    /\ usedFirst => limit0 >= 1
    /\ kapiKeys = DupKeys(copies, usedFirst, badSecond)
    /\ kapiOperators =
         [m \in Modules |->
            IF m = 1 THEN <<Operator(0, limit0, IF usedFirst THEN 1 ELSE 0),
                            Operator(1, limit1, 0)>>
            ELSE <<Operator(0, limit2, 0)>>]
    /\ kapiLastChangedBlockHash = 1
    /\ kapiNonces = [m \in Modules |-> 0]
    /\ depositedEvents \in DupEventLists
    /\ dsmVersion = 3
    /\ dsmPaused = FALSE
    /\ signingKeyAdded \in DupHistories

InitDup == DupEnvInit /\ TickInit /\ FrIdle /\ KvInit /\ AuxIdle

NextDup ==
  \/ CronTick
  \/ FetchKeys
  \/ \E m \in Modules : CheckModule(m)
  \/ HandleUnvettingDone
  \/ \E m \in Modules : DecideModule(m)
  \/ \E m \in Modules : PublishDeposit(m)
  \/ CompleteTick
  \/ ReturnFromTick

SpecDup == InitDup /\ [][NextDup]_vars

(***************************************************************************)
(* Properties of the tick (Spec)                                           *)
(***************************************************************************)
\* C1: in every tick and for every staking module, if theftHappened or
\* alreadyPausedDeposits holds or the module has a front-run, invalid or duplicated
\* key, handleCorrectKeys is not reached: no deposit message is signed or published
\* for the module in the tick.
C1_NoDepositWhenCannotDeposit ==
  \A m \in Modules :
    (Checked(m) /\ (theftHappened \/ alreadyPausedDeposits \/ HasFlaggedKeys(m)))
      => /\ ~DepositSent(m)
         /\ modPc[m] # "sign"
         /\ ~ReachedHandleCorrectKeys(m)

C1_Witness ==
  /\ TickDone
  /\ \E m \in Modules :
       /\ stakingModulesData[m].duplicatedKeys # <<>>
       /\ ~theftHappened /\ ~alreadyPausedDeposits
       /\ ~DepositSent(m)
       /\ \E o \in Modules : DepositSent(o)

\* C2: on a DSM version below 3, v2 pause messages are broadcast in a tick exactly
\* when theftHappened holds and deposits are not already paused; then every staking
\* module gets one pause message and no module gets a deposit message.
C2_PauseV2ExactlyOnTheft ==
  (PastKeys /\ version < 3)
    => /\ PauseV2Sent => (theftHappened /\ ~alreadyPausedDeposits)
       /\ (theftHappened /\ ~alreadyPausedDeposits)
            => /\ \A m \in Modules : ~DepositSent(m)
               /\ (pc # "pause")
                    => \A m \in Modules : Cardinality(MessagesOf("pause", m)) = 1

C2_Witness ==
  /\ TickDone
  /\ version < 3
  /\ theftHappened
  /\ \A m \in Modules : Cardinality(MessagesOf("pause", m)) = 1 /\ ~DepositSent(m)

\* C3: when the lastChangedBlockHash of the keys call differs from the one of the
\* operators call, the tick aborts: it emits no message and the block-guard last
\* processed state is not set to the block of the tick.
C3_InconsistentHashAborts ==
  (currMeta # NoCurrMeta /\ currMeta.lastChangedBlockHash # meta.lastChangedBlockHash)
    => /\ pc = "end"
       /\ outcome = "aborted"
       /\ sent = {}
       /\ pauseSubmitted = {}
       /\ lastProcessedStateMeta.blockNumber < meta.blockNumber

C3_Witness ==
  /\ outcome = "aborted"
  /\ currMeta.lastChangedBlockHash # meta.lastChangedBlockHash
  /\ lastProcessedStateMeta # NoStateMeta

NoPauseMessage == ~PauseV2Sent /\ PauseV3Messages = {}

\* C4 as stated: a valid foreign deposit on a vetted unused key of module A
\* soft-pauses A only: no deposit message for A, no pause message at all, and every
\* other module without front-run, invalid or duplicated keys receives its deposit
\* message in the tick.
C4_Original ==
  TickDone =>
    \A a \in Modules :
      ForeignDepositOnVettedKey(a)
        => /\ ~DepositSent(a)
           /\ NoPauseMessage
           /\ \A b \in Modules \ {a} : ~HasFlaggedKeys(b) => DepositSent(b)

\* C4: a valid foreign deposit on a vetted unused key of module A stops the deposit
\* message of A; when no historical front-run was found no pause message is sent;
\* when moreover deposits are not already paused, every other module without
\* front-run, invalid or duplicated keys reaches handleCorrectKeys and receives its
\* deposit message unless its contracts state is unchanged within the re-signing
\* window.
C4_SoftPauseOfFrontRunModule ==
  TickDone =>
    \A a \in Modules :
      ForeignDepositOnVettedKey(a)
        => /\ ~DepositSent(a)
           /\ ~ReachedHandleCorrectKeys(a)
           /\ ~theftHappened => NoPauseMessage
           /\ (~theftHappened /\ ~alreadyPausedDeposits)
                => \A b \in Modules \ {a} :
                     ~HasFlaggedKeys(b)
                       => /\ ReachedHandleCorrectKeys(b)
                          /\ \/ DepositSent(b)
                             \/ UnchangedInWindow(
                                  lastContractsState[b],
                                  currentContractState(stakingModulesData[b], blockData))

C4_Witness ==
  /\ TickDone
  /\ ~theftHappened /\ ~alreadyPausedDeposits
  /\ \E a \in Modules :
       /\ ForeignDepositOnVettedKey(a)
       /\ ~DepositSent(a)
       /\ \E b \in Modules \ {a} : ~HasFlaggedKeys(b) /\ DepositSent(b)

\* C7: for a given securityVersion one pause branch emits: with version 3 or higher
\* at most one global v3 pause message is broadcast and no v2 pause message; with a
\* version below 3 no v3 pause message is broadcast.
C7_OnePauseBranchPerVersion ==
  PastKeys =>
    /\ version >= 3 => (Cardinality(PauseV3Messages) <= 1 /\ ~PauseV2Sent
                        /\ pauseSubmitted = {})
    /\ version < 3 => PauseV3Messages = {}

C7_Witness ==
  /\ TickDone
  /\ version >= 3
  /\ Cardinality(PauseV3Messages) = 1
  /\ ~PauseV2Sent

\* C8 as stated: on a DSM version below 3, after a tick that detected a historical
\* front-run with several staking modules, an on-chain pauseDeposits transaction has
\* been submitted for every staking module.
C8_EveryModulePausedOnChain ==
  (TickDone /\ version < 3 /\ theftHappened /\ ~alreadyPausedDeposits)
    => pauseSubmitted = Modules

C10_SingleShot ==
  /\ [](running <= 1 /\ (isExecuting <=> running = 1))
  /\ [][(skipped' /\ ~skipped)
          => /\ isExecuting
             /\ UNCHANGED <<isExecuting, running, pc, outcome, failures, localVars,
                            sent, pauseSubmitted, unvetSubmitted, serviceVars, envVars>>]_vars

C10_Witness ==
  /\ skipped
  /\ isExecuting
  /\ running = 1
  /\ pc = "modules"
  /\ \E m \in Modules : modPc[m] = "sign"

\* the on-chain pause is called for module m by this step (handleKeysIntersections
\* of m runs)
PauseCalledFor(m) == pc = "pause" /\ m \in pausePending /\ m \notin pausePending'

\* C11: a call of the on-chain pause made while the transaction of a previous call
\* is pending returns without submitting anything, a call made while none is
\* pending makes the contract call (and starts the wait for its receipt) once;
\* while one transaction stays pending no further contract call is made.
C11_OverlappingPauseCallsSubmitOnce ==
  /\ [][\A m \in Modules :
          PauseCalledFor(m)
            => IF pauseIsExecuting
               THEN pauseSubmitted' = pauseSubmitted /\ pauseIsExecuting'
               ELSE /\ pauseSubmitted' = pauseSubmitted \cup {m}
                    /\ m \notin pauseSubmitted
                    /\ pauseIsExecuting']_vars
  /\ [][(pauseIsExecuting /\ pauseIsExecuting')
          => pauseSubmitted' \subseteq pauseSubmitted]_vars

\* both modules called the on-chain pause in one tick, the second call while the
\* transaction of the first was pending: one contract call
C11_Witness ==
  /\ TickDone
  /\ \A m \in Modules : MessagesOf("pause", m) # {}
  /\ Cardinality(pauseSubmitted) = 1
  /\ pauseIsExecuting

\* handleNewBlock starts its body with this step
TickStarts == pc = "idle" /\ pc' # "idle"

\* C12: a tick whose snapshot has a blockNumber not above the last processed one, or
\* the blockHash of the last processed state, returns before the keys call: it
\* emits no message and leaves the last processed state, the deposit event cache
\* and the per-module last contracts states as they were.
C12_BlockGuardSkipsSeenSnapshot ==
  /\ [][(TickStarts
          /\ (\/ meta'.blockNumber <= lastProcessedStateMeta.blockNumber
              \/ meta'.blockHash = lastProcessedStateMeta.blockHash))
          => /\ pc' = "end"
             /\ outcome' = "unchanged"
             /\ sent' = {}
             /\ UNCHANGED <<currMeta, pauseSubmitted, unvetSubmitted, serviceVars>>]_vars
  /\ [](outcome = "unchanged"
          => /\ pc = "end"
             /\ sent = {}
             /\ pauseSubmitted = {}
             /\ currMeta = NoCurrMeta)
  /\ [][outcome = "unchanged"
          => UNCHANGED <<lastProcessedStateMeta, depositCacheEndBlock,
                         lastContractsStateByModuleId>>]_vars

\* a tick on a snapshot older than the last processed one, while the keys-index
\* has changed
C12_Witness ==
  /\ outcome = "unchanged"
  /\ meta.blockNumber < lastProcessedStateMeta.blockNumber
  /\ kapiLastChangedBlockHash > 1
  /\ \E m \in Modules : lastContractsStateByModuleId[m] # NoContractsState

\* C13: the last processed state changes only at the end of a tick whose branches
\* and ping all completed, to the snapshot of that tick; a tick that failed leaves
\* it, so that its snapshot still needs processing and the next tick on that
\* snapshot goes on to the keys call.
C13_LastProcessedOnlyAfterFullCycle ==
  /\ [][lastProcessedStateMeta' # lastProcessedStateMeta
          => /\ pc = "modules"
             /\ \A m \in Modules : modPc[m] \in {"done", "softPaused"}
             /\ outcome' = "done"
             /\ \E msg \in sent' : msg.type = "ping"
             /\ lastProcessedStateMeta' =
                  [blockHash |-> meta.blockHash, blockNumber |-> meta.blockNumber]]_vars
  /\ [](outcome \in {"failed", "aborted"}
          => ~(\/ meta.blockNumber <= lastProcessedStateMeta.blockNumber
               \/ meta.blockHash = lastProcessedStateMeta.blockHash))
  /\ [][(TickStarts
          /\ ~(\/ meta'.blockNumber <= lastProcessedStateMeta.blockNumber
               \/ meta'.blockHash = lastProcessedStateMeta.blockHash))
          => pc' = "keys"]_vars

\* a tick processes a snapshot again: an earlier tick on the same block ran
\* handleCorrectKeys for a module and then failed
C13_Witness ==
  /\ pc = "modules"
  /\ failures = 1
  /\ \E m \in Modules :
       /\ modPc[m] = "check"
       /\ lastContractsStateByModuleId[m].blockNumber = meta.blockNumber

\* the run of updateEventsCache in flight went through its loop to the end
RunCompletedLoop == ecIsRootValid \in {"valid", "mismatch"}

\* C21: a run of updateEventsCache fetches the blocks from the cached endBlock + 1 to
\* the finalized block as chunks that follow one another without gap or overlap, in
\* ascending order, each of at most DEPOSIT_EVENTS_STEP blocks, and after each chunk
\* the persisted endBlock is the last block of the chunk; over the runs the persisted
\* endBlock never decreases and is never above the finalized block of the run.
C21_ChunksFollowToFinalized ==
  /\ [][(ecChunks' # ecChunks /\ ecChunks' # <<>>)
          => LET n == Len(ecChunks')
                 chunk == ecChunks'[n]
                 expectedFrom == IF n = 1 THEN ecInitialCache.headers.endBlock + 1
                                 ELSE ecChunks[n - 1].to + 1
             IN /\ chunk.from = expectedFrom
                /\ chunk.from <= chunk.to
                /\ chunk.to - chunk.from + 1 <= DEPOSIT_EVENTS_STEP
                /\ chunk.to <= ecFinalizedBlockNumber
                /\ ecStore'.headers.endBlock = chunk.to]_vars
  /\ [](RunCompletedLoop
          => IF ecChunks = <<>>
             THEN ecInitialCache.headers.endBlock >= ecFinalizedBlockNumber
             ELSE ecChunks[Len(ecChunks)].to = ecFinalizedBlockNumber)
  /\ [][ecStore'.headers.endBlock >= ecStore.headers.endBlock]_vars
  /\ [][ecStore'.headers.endBlock # ecStore.headers.endBlock
          => ecStore'.headers.endBlock <= ecFinalizedBlockNumber]_vars
  /\ [](ecPc = "loop" => ecStore.headers.endBlock <= ecFinalizedBlockNumber)

\* a later run has fetched several chunks, the last one shorter than the step
C21_Witness ==
  /\ RunCompletedLoop
  /\ ecRuns > 1
  /\ ecInitialCache.headers.endBlock > ecDeploymentBlock
  /\ Len(ecChunks) >= 2
  /\ ecChunks[Len(ecChunks)].to - ecChunks[Len(ecChunks)].from + 1 < DEPOSIT_EVENTS_STEP
  /\ ecStore.headers.endBlock = ecFinalizedBlockNumber

\* C22: lastValidEvent is overwritten only at the end of a run of updateEventsCache
\* whose tree root equals get_deposit_root at the finalized block and that indexed at
\* least one new event, and then with the last event the run indexed; a run that
\* ends with a root mismatch leaves lastValidEvent as it was, while the events it
\* fetched are in the persisted cache.
C22_LastValidEventOnlyOnValidRoot ==
  /\ [][ecStore'.lastValidEvent # ecStore.lastValidEvent
          => /\ ecPc = "loop" /\ ecPc' = "idle"
             /\ ecTree = EventsInRange(ecChain, 0, ecFinalizedBlockNumber)
             /\ ecRunEvents # <<>>
             /\ ecStore'.lastValidEvent = ecRunEvents[Len(ecRunEvents)]]_vars
  /\ [][ecIsRootValid' = "mismatch"
          => ecStore'.lastValidEvent = ecStore.lastValidEvent]_vars
  /\ [](ecIsRootValid = "mismatch"
          => ecStore.data = ecInitialCache.data \o ecRunEvents)

\* a run that indexed events ends with a root mismatch and keeps the lastValidEvent
\* of an earlier run
C22_Witness ==
  /\ ecIsRootValid = "mismatch"
  /\ ecRunEvents # <<>>
  /\ ecStore.lastValidEvent # NoIndexedEvent
  /\ \A i \in 1..Len(ecRunEvents) : ecRunEvents[i] # ecStore.lastValidEvent
  /\ ecStore.data = ecInitialCache.data \o ecRunEvents

\* headers.endBlock of the cache as getCachedEvents reads it
CachedEndBlock == getCachedEvents(ecStore, ecDeploymentBlock).headers.endBlock

C27_ProcessedBlocksIncrease ==
  /\ [][lastProcessedStateMeta' # lastProcessedStateMeta
          => lastProcessedStateMeta'.blockNumber > lastProcessedStateMeta.blockNumber]_vars
  /\ [][(TickStarts /\ meta'.blockNumber <= lastProcessedStateMeta.blockNumber)
          => pc' = "end" /\ outcome' = "unchanged"]_vars

\* a third block is recorded after two lower ones
C27_Witness ==
  /\ TickDone
  /\ lastProcessedStateMeta.blockNumber = MaxBlock
  /\ \E m \in Modules :
       /\ lastContractsState[m] # NoContractsState
       /\ lastContractsState[m].blockNumber > MinBlock
       /\ lastContractsState[m].blockNumber < MaxBlock

\* the branch of module m runs handleCorrectKeys up to its first await
EntersHandleCorrectKeys(m) ==
  /\ pc = "modules"
  /\ modPc[m] = "decide"
  /\ modPc'[m] \in {"sign", "done"}

\* the recorded state a and the state b differ in what the re-signing gate compares
DiffersForResigning(a, b) ==
  \/ a = NoContractsState
  \/ a.depositRoot # b.depositRoot
  \/ a.lastChangedBlockHash # b.lastChangedBlockHash
  \/ a.blockNumber \div GUARDIAN_DEPOSIT_RESIGNING_BLOCKS
       # b.blockNumber \div GUARDIAN_DEPOSIT_RESIGNING_BLOCKS

\* C28: handleCorrectKeys goes on to sign and publish the deposit message exactly
\* when no state is recorded for the module or the current state differs from the
\* recorded one in depositRoot, lastChangedBlockHash or
\* floor(blockNumber / GUARDIAN_DEPOSIT_RESIGNING_BLOCKS); it returns without signing
\* only when the three are equal; in both cases the recorded state of the module
\* becomes the current one.
C28_ResignGate ==
  /\ [][hckPc = "call" /\ hckPc' # "call"
          => /\ hckPc' = "sign"
                  <=> DiffersForResigning(hckLastContractsState, hckCurrentContractState)
             /\ hckPc' = "skipped"
                  <=> ~DiffersForResigning(hckLastContractsState, hckCurrentContractState)
             /\ hckRecorded' = hckCurrentContractState]_vars
  /\ [](hckPc = "published"
          => /\ DiffersForResigning(hckLastContractsState, hckCurrentContractState)
             /\ hckRecorded = hckCurrentContractState
             /\ hckSent = {[depositRoot |-> hckCurrentContractState.depositRoot,
                            nonce |-> hckCurrentContractState.nonce,
                            blockNumber |-> hckCurrentContractState.blockNumber]})
  /\ [](hckPc = "skipped" => hckSent = {} /\ hckRecorded = hckCurrentContractState)

\* a deposit message is published again because the deposit root changed inside the
\* re-signing window
C28_Witness ==
  /\ hckPc = "published"
  /\ hckSent # {}
  /\ hckLastContractsState # NoContractsState
  /\ hckLastContractsState.depositRoot # hckCurrentContractState.depositRoot
  /\ hckLastContractsState.lastChangedBlockHash
       = hckCurrentContractState.lastChangedBlockHash
  /\ hckLastContractsState.blockNumber \div GUARDIAN_DEPOSIT_RESIGNING_BLOCKS
       = hckCurrentContractState.blockNumber \div GUARDIAN_DEPOSIT_RESIGNING_BLOCKS

\* C29: a contracts state counts as already signed only after its deposit message
\* was published: a call of handleCorrectKeys that returns without signing finds
\* recorded a state whose deposit message was published; a state recorded by a call
\* whose signing or publishing failed is signed and published by the later call.
C29_RetryAfterFailedSigning ==
  hckPc = "skipped" => ~hckUnpublished

ModuleIdOf(moduleAddress) == CHOOSE m \in Modules : ModuleAddress(m) = moduleAddress

\* the operator holding a key of the keys-index
OperatorOf(key) ==
  LET operators == kapiOperators[ModuleIdOf(key.moduleAddress)]
  IN operators[CHOOSE i \in DOMAIN operators : operators[i].index = key.operatorIndex]

WithinStakingLimit(key) == key.index < OperatorOf(key).stakingLimit

\* the instances of the pubkey of a key in the keys-index
InstancesOf(key) == {k \in Range(kapiKeys) : k.key = key.key}

\* the cache records both keys, x was added before y
AddedEarlier(x, y) ==
  \E ex \in signingKeyAdded, ey \in signingKeyAdded :
    /\ ex.moduleAddress = x.moduleAddress /\ ex.operatorIndex = x.operatorIndex
    /\ ex.index = x.index
    /\ ey.moduleAddress = y.moduleAddress /\ ey.operatorIndex = y.operatorIndex
    /\ ey.index = y.index
    /\ \/ ex.blockNumber < ey.blockNumber
       \/ (ex.blockNumber = ey.blockNumber /\ ex.logIndex < ey.logIndex)

\* no key within its staking limit has a signature that does not verify, and there
\* is no deposit on the chain
NoInvalidVettedKey ==
  /\ depositedEvents = <<>>
  /\ \A k \in Range(kapiKeys) :
       (WithinStakingLimit(k) /\ ~k.used) => k.depositSignature = GoodSignature

UnvetMessages == {msg \in sent : msg.type = "unvet"}

\* the branch of module m was not stopped by a soft pause: it went on to
\* handleCorrectKeys, and published a deposit message unless the state it signed
\* last is still current
DepositsProceed(m) ==
  /\ modPc[m] = "done"
  /\ ReachedHandleCorrectKeys(m)
  /\ lastContractsState[m] = NoContractsState => DepositSent(m)

\* the unvet message that unvets the operator of key down to the index of key
UnvetsDownTo(msg, key) ==
  /\ msg.stakingModuleId = ModuleIdOf(key.moduleAddress)
  /\ msg.operatorIds = <<key.operatorIndex>>
  /\ msg.vettedKeysByOperator = <<key.index>>

\* x and y are the two instances of a pubkey, held by two operators of one module,
\* x added before y, y not deposited
TwoOperatorsHoldSamePubkey(x, y) ==
  /\ {x, y} \subseteq Range(kapiKeys)
  /\ InstancesOf(x) = {x, y}
  /\ x.moduleAddress = y.moduleAddress
  /\ x.operatorIndex # y.operatorIndex
  /\ AddedEarlier(x, y)
  /\ ~y.used
  /\ NoInvalidVettedKey

FlaggedKeys ==
  UNION {Range(keysForUnvetting(stakingModulesData[m])) : m \in Modules}

\* u is a deposited key and y the one other instance of its pubkey, not deposited
\* and not added before u
CopyOfDepositedKey(u, y) ==
  /\ {u, y} \subseteq Range(kapiKeys)
  /\ InstancesOf(u) = {u, y}
  /\ u.used
  /\ ~y.used
  /\ ~AddedEarlier(y, u)
  /\ NoInvalidVettedKey

DetectorInput == Range(getVettedKeys(stakingModulesData, NumModules))

\* the instances of the pubkey of key among the keys handed to the detector
SamePubkey(key) == {o \in DetectorInput : o.key = key.key}

FlaggedKeysOf(msg) == Range(keysForUnvetting(stakingModulesData[msg.stakingModuleId]))

\* the staking limit of an operator of a module in the keys-index
StakingLimitOf(m, operatorIndex) ==
  LET operators == kapiOperators[m]
  IN operators[CHOOSE i \in DOMAIN operators :
                 operators[i].index = operatorIndex].stakingLimit

\* C17: the unvet payload of a module lists exactly the operators holding a flagged
\* (front-run, invalid or duplicated) key, each once; the new vetted count of each
\* is the smallest index among the flagged keys of the operator and is lower than
\* the staking limit of the operator; operatorIds and vettedKeysByOperator have the
\* same length and the same operator order.
C17_UnvetPayload ==
  \A msg \in UnvetMessages :
    LET flagged == FlaggedKeysOf(msg)
        ids == msg.operatorIds
        counts == msg.vettedKeysByOperator
    IN /\ Range(ids) = {k.operatorIndex : k \in flagged}
       /\ \A i \in DOMAIN ids, j \in DOMAIN ids : ids[i] = ids[j] => i = j
       /\ DOMAIN counts = DOMAIN ids
       /\ \A i \in DOMAIN ids :
            /\ \E k \in flagged : k.operatorIndex = ids[i] /\ k.index = counts[i]
            /\ \A k \in flagged : k.operatorIndex = ids[i] => counts[i] <= k.index
            /\ counts[i] < StakingLimitOf(msg.stakingModuleId, ids[i])

C17_Witness ==
  \E msg \in UnvetMessages :
    /\ Len(msg.operatorIds) = 2
    /\ stakingModulesData[msg.stakingModuleId].frontRunKeys # <<>>
    /\ stakingModulesData[msg.stakingModuleId].invalidKeys # <<>>
    /\ stakingModulesData[msg.stakingModuleId].duplicatedKeys # <<>>
    /\ \E a \in FlaggedKeysOf(msg), b \in FlaggedKeysOf(msg) :
         a.operatorIndex = b.operatorIndex /\ a.index < b.index

(***************************************************************************)
(* Properties of the validation cache (SpecKV)                             *)
(***************************************************************************)
\* the argument of validateKeys in the last call of getInvalidKeys
LastValidated == kvValidated[kvCalls]

\* the (depositSignature, wc) of the key in the last call is not the one the cache
\* held for its pubkey when the call was made
DiffersFromCache(key) ==
  \/ kvCacheBefore[key.key].depositSignature # key.depositSignature
  \/ kvCacheBefore[key.key].wc # kvWC

\* every pubkey of the list has one signature in the list
SignaturesAgree(keys) ==
  \A i \in DOMAIN keys, j \in DOMAIN keys :
    keys[i].key = keys[j].key => keys[i].depositSignature = keys[j].depositSignature

\* the last call has the keys of the call before it, but for the signature of the
\* key at position i
OneSignatureChanged(i) ==
  /\ kvCalls >= 2
  /\ kvWC = kvPrevWC
  /\ DOMAIN kvKeys = DOMAIN kvPrevKeys
  /\ i \in DOMAIN kvKeys
  /\ kvKeys[i].depositSignature # kvPrevKeys[i].depositSignature
  /\ kvKeys[i].key = kvPrevKeys[i].key
  /\ \A j \in DOMAIN kvKeys \ {i} : kvKeys[j] = kvPrevKeys[j]

\* validateKeys is called once per call of getInvalidKeys, with the keys of the
\* call that differ from the cache, in their order; with all keys when the call
\* repeats the previous one under another lidoWC
ValidatedExactlyChanged ==
  /\ Len(kvValidated) = kvCalls
  /\ kvCalls >= 1
       => /\ LastValidated = SelectSeq(kvKeys, DiffersFromCache)
          /\ (kvCalls >= 2 /\ kvKeys = kvPrevKeys /\ kvWC # kvPrevWC)
               => LastValidated = kvKeys

InvalidNow(key) == ~(key.depositSignature = GoodSignature /\ kvWC = LidoWC)

\* C20: every call of getInvalidKeys returns exactly the keys of its input that are
\* invalid for their current (depositSignature, lidoWC), each once, as a validation
\* of every key without the cache does: a key whose signature became valid is not
\* returned any more, a key that was invalid and did not change is returned again.
C20_ResultAsWithoutCache ==
  kvCalls >= 1
    => /\ Range(kvResult) = {k \in Range(kvKeys) : InvalidNow(k)}
       /\ \A i \in DOMAIN kvResult, j \in DOMAIN kvResult :
            kvResult[i] = kvResult[j] => i = j

C20_Witness ==
  /\ Len(kvKeys) = 2
  /\ OneSignatureChanged(2)
  /\ kvKeys[2].depositSignature = GoodSignature
  /\ kvWC = LidoWC
  /\ LastValidated = <<kvKeys[2]>>
  /\ kvResult = <<kvKeys[1]>>

(***************************************************************************)
(* Properties of the detection functions (SpecFR)                          *)
(***************************************************************************)
FrEvents == Range(frBlockData.depositedEvents.events)

\* the pubkeys with at least one valid deposit carrying a foreign credential
ForeignValidPubkeys ==
  {e.pubkey : e \in {x \in FrEvents : x.valid /\ x.wc # frBlockData.lidoWC}}

\* C5: getFrontRunAttempts returns exactly the vetted unused keys of the module, in
\* their order, whose pubkey has a valid deposit with a credential other than
\* lidoWC; deposits with the Lido credential or an invalid signature flag nothing.
C5_FrontRunAttemptsExact ==
  frPc = "attempts"
    => frAttempts = SelectSeq(frModuleData.vettedUnusedKeys,
                              LAMBDA k : k.key \in ForeignValidPubkeys)

C5_Witness ==
  /\ frPc = "attempts"
  /\ Len(frModuleData.vettedUnusedKeys) = 2
  /\ Len(frAttempts) = 1
  /\ \E e \in FrEvents :
       /\ e.pubkey # frAttempts[1].key
       /\ ~e.valid
       /\ e.wc # frBlockData.lidoWC
  /\ \E e \in FrEvents : e.pubkey = frAttempts[1].key /\ e.wc = frBlockData.lidoWC

\* position of event a strictly before event b on the chain
StrictlyBefore(a, b) ==
  \/ a.blockNumber < b.blockNumber
  \/ a.blockNumber = b.blockNumber /\ a.logIndex < b.logIndex

ValidLidoDeposits(pubkey) ==
  {e \in FrEvents : e.pubkey = pubkey /\ e.valid /\ e.wc = frBlockData.lidoWC}

\* the pubkeys with a valid foreign deposit strictly before the earliest valid Lido
\* deposit of the same pubkey
HistoricallyFrontRunPubkeys ==
  {e.pubkey : e \in {x \in FrEvents :
     /\ x.valid
     /\ x.wc # frBlockData.lidoWC
     /\ ValidLidoDeposits(x.pubkey) # {}
     /\ \A l \in ValidLidoDeposits(x.pubkey) : StrictlyBefore(x, l)}}

\* C6: getHistoricalFrontRun is true exactly when some valid foreign deposit is
\* strictly earlier, by (blockNumber, logIndex), than the earliest valid Lido
\* deposit of its pubkey and the keys-index knows one of those pubkeys, whatever
\* the order of the list; the keys-index is queried exactly when such a deposit
\* exists.
C6_HistoricalFrontRunExact ==
  frPc = "historical"
    => /\ frHistorical.result = (HistoricallyFrontRunPubkeys \cap frIndexKeys # {})
       /\ frHistorical.queried = (HistoricallyFrontRunPubkeys # {})

\* a front-run found in a list that is not in chain order and holds a later foreign
\* deposit too
C6_Witness ==
  /\ frPc = "historical"
  /\ frHistorical.result
  /\ LET events == frBlockData.depositedEvents.events
     IN /\ Len(events) = 3
        /\ events[1].wc = frBlockData.lidoWC
        /\ StrictlyBefore(events[3], events[1])
        /\ \E i \in 1..3 :
             /\ events[i].wc # frBlockData.lidoWC
             /\ events[i].blockNumber = events[1].blockNumber

(***************************************************************************)
(* DepositTree properties (SpecDT)                                         *)
(***************************************************************************)
\* the node at a height and index of the full tree over the leaves, padded with
\* zero leaves
RECURSIVE merkleNode(_, _, _)
merkleNode(leaves, height, index) ==
  IF height = 0
  THEN IF index + 1 <= Len(leaves) THEN leaves[index + 1] ELSE <<0>>
  ELSE <<merkleNode(leaves, height - 1, 2 * index),
         merkleNode(leaves, height - 1, 2 * index + 1)>>

\* the root of the full tree of the depth over the leaves, mixed with their count
merkleRoot(leaves) ==
  <<merkleNode(leaves, DEPOSIT_CONTRACT_TREE_DEPTH, 0), nodeCountBytes(Len(leaves))>>

\* C24: getRoot of a tree the leaves were inserted into in order is the root of
\* the full tree of the depth over those leaves padded with zero leaves, mixed
\* with the leaf count; nodeCount is the number of inserts; a tree and its clone
\* that hold the same leaf sequence have equal roots.
C24_IncrementalRootIsMerkleRoot ==
  /\ "original" \notin dtMutated =>
       /\ getRoot(dtTree) = merkleRoot(dtLeaves)
       /\ dtTree.nodeCount = Len(dtLeaves)
  /\ (dtCloned /\ "clone" \notin dtMutated) =>
       /\ getRoot(dtClone) = merkleRoot(dtCloneLeaves)
       /\ dtClone.nodeCount = Len(dtCloneLeaves)
  /\ (dtCloned /\ dtMutated = {} /\ dtLeaves = dtCloneLeaves) =>
       getRoot(dtTree) = getRoot(dtClone)

\* a clone that was inserted into holds the same leaves as the original, enough of
\* them for a carry through two heights
C24_Witness ==
  /\ dtCloned
  /\ dtMutated = {}
  /\ dtLastOp = [op |-> "insert", tree |-> "clone"]
  /\ dtLeaves = dtCloneLeaves
  /\ Len(dtLeaves) >= 4
  /\ getRoot(dtTree) = getRoot(dtClone)

\* C25: after clone(), an insert into or a byte mutation of one of the two trees
\* leaves the branch, the nodeCount and the root of the other as they were.
C25_CloneIsolation ==
  [][(dtCloned /\ dtLastOp'.op \in {"insert", "setByte"}) =>
       /\ dtLastOp'.tree = "original" =>
            /\ dtClone'.branch = dtClone.branch
            /\ dtClone'.nodeCount = dtClone.nodeCount
            /\ getRoot(dtClone') = getRoot(dtClone)
       /\ dtLastOp'.tree = "clone" =>
            /\ dtTree'.branch = dtTree.branch
            /\ dtTree'.nodeCount = dtTree.nodeCount
            /\ getRoot(dtTree') = getRoot(dtTree)]_vars

\* a byte of a slot of the original was overwritten after the clone was made, and
\* the clone still holds what was inserted
C25_Witness ==
  /\ dtCloned
  /\ dtLastOp = [op |-> "setByte", tree |-> "original"]
  /\ "clone" \notin dtMutated
  /\ Len(dtCloneLeaves) >= 2
  /\ dtTree.branch # dtClone.branch
  /\ dtTree.nodeCount = dtClone.nodeCount

(***************************************************************************)
(* Start properties (SpecSU)                                               *)
(***************************************************************************)
\* the appVersion is below MIN_KAPI_VERSION
BelowMinKapiVersion ==
  LET v == suKeysApiStatus.appVersion
  IN \/ v[1] < MIN_KAPI_VERSION[1]
     \/ v[1] = MIN_KAPI_VERSION[1] /\ v[2] < MIN_KAPI_VERSION[2]
     \/ v[1] = MIN_KAPI_VERSION[1] /\ v[2] = MIN_KAPI_VERSION[2]
        /\ v[3] < MIN_KAPI_VERSION[3]

\* the steps past the check of the chain id, and past the check of the version
PastCheckChainId == {"checkVersion", "updateEventsCache", "subscribe", "running"}

PastCheckVersion == {"updateEventsCache", "subscribe", "running"}

\* C26: a failed start exits with code 1 before the cron job is started and before
\* a tick runs: the start does not get past a failed validation of the
\* configuration, a chain id that differs from the one of the keys-index or an
\* appVersion below MIN_KAPI_VERSION, and a step that throws exits; the cron job
\* is started only after the contracts, both services, both checks and the first
\* updateEventsCache are done.
C26_FailedStartExitsBeforeCron ==
  /\ suExit # <<>> => (suExit = <<1>> /\ ~suCronStarted /\ suTicks = 0)
  /\ (~suEnvValid /\ suPc # "config") => suExit = <<1>>
  /\ (suChainId # suKeysApiStatus.chainId /\ suPc \in PastCheckChainId) => suExit = <<1>>
  /\ (BelowMinKapiVersion /\ suPc \in PastCheckVersion) => suExit = <<1>>
  /\ suPc = "exited" => suExit = <<1>>
  /\ suTicks > 0 => suCronStarted
  /\ suCronStarted =>
       {"config", "contracts", "depositService", "securityService", "chainId",
        "appVersion", "updateEventsCache"} \subseteq suDone

\* the start got to the check of the version with everything before it done, found
\* the keys-index too old and exited
C26_Witness ==
  /\ suExit = <<1>>
  /\ BelowMinKapiVersion
  /\ suChainId = suKeysApiStatus.chainId
  /\ {"contracts", "depositService", "securityService", "chainId"} \subseteq suDone
  /\ ~suCronStarted
  /\ suTicks = 0

(***************************************************************************)
(* Properties of the keys cache of KeysApiService (SpecKA)                 *)
(***************************************************************************)
HashOf(list) == list.meta.elBlockSnapshot.lastChangedBlockHash

\* C35: a call of getKeys throws or returns a list whose lastChangedBlockHash is the
\* one of the snapshot; /v1/keys is requested exactly when nothing is cached or the
\* cached hash differs from the one asked for; when the request fails or the list
\* fetched has another hash the call throws and the cache keeps what it held; a
\* list fetched with the hash asked for is returned and cached.
C35_GetKeysMatchesSnapshot ==
  kaCalls > 0 =>
    /\ kaCall.threw \/ HashOf(kaCall.result) = kaCall.snapshot
    /\ kaCall.requested <=>
         (kaCall.cachedBefore = NoCachedKeys
            \/ HashOf(kaCall.cachedBefore) # kaCall.snapshot)
    /\ ~kaCall.requested =>
         (~kaCall.threw /\ kaCall.result = kaCall.cachedBefore
            /\ kaCachedKeys = kaCall.cachedBefore)
    /\ (kaCall.requested /\ (kaCall.failed \/ HashOf(kaCall.response) # kaCall.snapshot))
         => (kaCall.threw /\ kaCachedKeys = kaCall.cachedBefore)
    /\ (kaCall.requested /\ ~kaCall.failed /\ HashOf(kaCall.response) = kaCall.snapshot)
         => (~kaCall.threw /\ kaCall.result = kaCall.response
               /\ kaCachedKeys = kaCall.response)
    /\ kaCachedKeys # NoCachedKeys => HashOf(kaCachedKeys) \in 1..NumKeysHashes

\* a list is cached, the keys-index has moved on, and a call with the snapshot of
\* the older state fetched a list with another hash: it threw and the cache stands
C35_Witness ==
  /\ kaCalls > 1
  /\ kaCall.cachedBefore # NoCachedKeys
  /\ kaCall.requested
  /\ ~kaCall.failed
  /\ HashOf(kaCall.response) # kaCall.snapshot
  /\ kaCall.threw
  /\ kaCachedKeys = kaCall.cachedBefore

(***************************************************************************)
(* Properties of the deposit events cache and its tree (SpecEC)            *)
(***************************************************************************)
\* a call of getAllDepositedEvents is made in the step
CallsGetAllDepositedEvents == ecTick = "none" /\ ecTick' # "none"

\* no event occurs twice in the list
EachOnce(events) ==
  \A i, j \in 1..Len(events) : i # j => events[i] # events[j]

\* the list is in the order of the blocks of its events
InBlockOrder(events) ==
  \A i, j \in 1..Len(events) : i < j => events[i] < events[j]

\* C34: the running tree holds the persisted events, each once and in the order
\* of their blocks, whenever no run of updateEventsCache is in its loop.
C34_TreeHoldsPersistedEvents ==
  ecPc = "idle" =>
    /\ ecTree = ecStore.data
    /\ EachOnce(ecTree)
    /\ InBlockOrder(ecTree)

\* what a call of getAllDepositedEvents returns for the block: the cached events
\* followed by the events of the blocks after the cached endBlock up to the block,
\* or by none when the node lost its logs
MergedEvents ==
  {ecStore.data \o EventsInRange(ecChain, CachedEndBlock + 1, ecCurrentBlock'),
   ecStore.data}

\* C36 as stated: every call returns the cached events followed by the fresh ones,
\* with endBlock = blockNumber.
C36_Original ==
  [][CallsGetAllDepositedEvents
       => /\ ecAllDepositedEvents'.events \in MergedEvents
          /\ ecAllDepositedEvents'.startBlock
               = getCachedEvents(ecStore, ecDeploymentBlock).headers.startBlock
          /\ ecAllDepositedEvents'.endBlock = ecCurrentBlock'
          /\ EachOnce(ecAllDepositedEvents'.events)
          /\ ecStore' = ecStore
          /\ ecTree' = ecTree]_vars

\* C36: a call of getAllDepositedEvents for a block not below the cached endBlock
\* returns the cached events followed by the events fetched for the blocks from the
\* cached endBlock + 1 to the block, with the startBlock of the cache and
\* endBlock = blockNumber, no event twice; no call changes the persisted cache or
\* the running tree.
C36_MergedEventsAndFrame ==
  [][CallsGetAllDepositedEvents
       => /\ CachedEndBlock <= ecCurrentBlock'
               => /\ ecFreshFetched'
                  /\ ecAllDepositedEvents'.events \in MergedEvents
                  /\ ecAllDepositedEvents'.startBlock
                       = getCachedEvents(ecStore, ecDeploymentBlock).headers.startBlock
                  /\ ecAllDepositedEvents'.endBlock = ecCurrentBlock'
                  /\ EachOnce(ecAllDepositedEvents'.events)
          /\ ecStore' = ecStore
          /\ ecTree' = ecTree]_vars

\* a call on a filled cache returned cached and fresh events together
C36_Witness ==
  /\ ecTick = "proceeds"
  /\ ecFreshFetched
  /\ ecStore.data # <<>>
  /\ CachedEndBlock < ecCurrentBlock
  /\ Len(ecAllDepositedEvents.events) > Len(ecStore.data)
  /\ ecAllDepositedEvents.endBlock = ecCurrentBlock
  /\ ecTree = ecStore.data

(***************************************************************************)
(* The snapshot a tick works on (Spec)                                     *)
(***************************************************************************)
\* the deposit messages the tick in flight handed to the bus
DepositMessagesOfTick == {msg \in sent : msg.type = "deposit"}

TickReturned(t) == fanSettled[t] # "pending"

\* the branch of module m of tick t is at an await
BranchRunning(t, m) ==
  \/ fanBranch[t][m] \in {"check", "sign"}
  \/ fanPause[t][m] \in {"sign", "send"}

\* C31: once handleNewBlock has returned, no branch of its tick is still running
\* and no message of the tick is published after the return.
C31_NoBranchOutlivesItsTick ==
  /\ \A t \in FanTicks, m \in Modules : TickReturned(t) => ~BranchRunning(t, m)
  /\ \A msg \in fanSent : ~msg.late

\* a branch of a tick that has returned publishes while a later tick is running
BranchActsDuringLaterTick ==
  \E t \in FanTicks, m \in Modules :
    /\ TickReturned(t)
    /\ fanCur \notin {0, t}
    /\ \E msg \in fanSent : msg.tick = t /\ msg.stakingModuleId = m /\ msg.late

\* an exception of module m was raised in tick t
RaisedFor(t, m) == \E e \in fanRaised : e.tick = t /\ e.module = m

\* C32: a failure for one module does not stop the other modules of the tick from
\* being processed: once the tick returned and the branches of another module are
\* at rest without a failure of their own, that module went through the fan-out.
C32_FailureSparesSiblings ==
  \A t \in FanTicks, a \in Modules, b \in Modules :
    ( /\ a # b
      /\ TickReturned(t)
      /\ RaisedFor(t, a)
      /\ ~RaisedFor(t, b)
      /\ ~BranchRunning(t, b) )
    => fanBranch[t][b] \in {"done", "softPaused"}

\* a rejected on-chain pause does not keep the pause message of its module back
OnChainFailureSparesPauseMessage ==
  \A t \in FanTicks, m \in Modules :
    (<<t, m>> \in fanOnChainFailed /\ fanPause[t][m] = "done")
      => \E msg \in fanSent :
           msg.type = "pause" /\ msg.tick = t /\ msg.stakingModuleId = m

\* a failure in the fan-out leaves the branches of the other modules running to
\* their end
FanOutFailureSparesSiblings ==
  \A t \in FanTicks, a \in Modules, b \in Modules :
    ( /\ a # b
      /\ \E e \in fanRaised : e.tick = t /\ e.module = a /\ e.stage = "modules"
      /\ ~RaisedFor(t, b) )
    => fanBranch[t][b] \in {"check", "sign", "done", "softPaused"}

\* whatever the order of its branches, a first tick that completes without a theft
\* has published one deposit message per module and recorded the state of its
\* block for every module
FirstTickResultOrderFree ==
  (fanOutcome[1] = "done" /\ ~fanTheft[1] /\ fanTicks = 1)
    => /\ fanLast = [m \in Modules |->
                       currentContractState(FanModuleData(m), FanBlockData(1))]
       /\ {[type |-> msg.type, stakingModuleId |-> msg.stakingModuleId,
             blockNumber |-> msg.blockNumber] : msg \in fanSent}
            = {[type |-> "deposit", stakingModuleId |-> m,
                blockNumber |-> fanBlock[1]] : m \in Modules}
              \cup {[type |-> "ping", stakingModuleId |-> 0,
                     blockNumber |-> fanBlock[1]]}

\* the deposit messages handed to the bus
FanDepositMessages == {msg \in fanSent : msg.type = "deposit"}

\* C38: every deposit message of a module is for a block above the block of the
\* deposit message published before it for the module.
C38_DepositBlocksIncrease ==
  \A msg \in FanDepositMessages : msg.blockNumber > msg.after

\* the deposit messages of branches whose tick is in flight are in increasing
\* block order
DepositBlocksIncreaseWithinTicks ==
  \A msg \in FanDepositMessages : ~(msg.blockNumber > msg.after) => msg.late

====
